---- MODULE Spec2Model ----
(***************************************************************************)
(* Header-based authentication and role-based access control of the       *)
(* keyword API: api/core/middleware.py and the settings it reads from     *)
(* api/core/config.py; further down the application of api/main.py, the   *)
(* TemplateRequest schema, the LiteLLM wrapper with the chat route, and    *)
(* api/create_sample_data.py.                                              *)
(*                                                                         *)
(* Python strings that the code inspects character by character (paths,   *)
(* path patterns, role names) are sequences of one-character strings.     *)
(* HTTP methods are only ever compared whole and are TLA+ strings.        *)
(***************************************************************************)
EXTENDS Integers, Sequences, FiniteSets, TLC

VARIABLES
    settings,    \* the Settings object of api/core/config.py (settings = Settings())
    rbac_config, \* the rule table AuthMiddleware consults (RBACConfig() builds the
                 \* same one for every request)
    req,         \* the request in auth_middleware: its inputs, request.state, response
    reqs,        \* the requests in auth_middleware when several are served at once
    args,        \* the arguments of a direct call of a method or function
    ret,         \* what that call returned
    db,          \* the rows of the database the wrapped application works on
    sample       \* create_sample_data: its position, its dicts and its session

vars == <<settings, rbac_config, req, reqs, args, ret, db, sample>>

----------------------------------------------------------------------------
(* Bounds of the model.                                                    *)

\* Requests served at the same time.
NumReq == 2

\* Longest generated path / pattern string.
MaxLen == 3

----------------------------------------------------------------------------
(* Strings.                                                                *)

\* Python's None, kept apart from every string (strings hold single characters).
None == <<"None">>

Empty == <<>>

Star == <<"*">>

SlashStar == <<"/", "*">>

UpperCase ==
    <<"A", "B", "C", "D", "E", "F", "G", "H", "I", "J", "K", "L", "M",
      "N", "O", "P", "Q", "R", "S", "T", "U", "V", "W", "X", "Y", "Z">>

LowerCase ==
    <<"a", "b", "c", "d", "e", "f", "g", "h", "i", "j", "k", "l", "m",
      "n", "o", "p", "q", "r", "s", "t", "u", "v", "w", "x", "y", "z">>

\* str.lower() on one character.
LowerChar(c) ==
    IF \E i \in 1..Len(UpperCase) : UpperCase[i] = c
    THEN LowerCase[CHOOSE i \in 1..Len(UpperCase) : UpperCase[i] = c]
    ELSE c

\* A lower() that forgets to convert: the string as it came.
LowerIdentity(s) == s

\* str.lower()
Lower(s) == [i \in 1..Len(s) |-> LowerChar(s[i])]

\* str.startswith(prefix)
StartsWith(s, prefix) ==
    /\ Len(prefix) <= Len(s)
    /\ SubSeq(s, 1, Len(prefix)) = prefix

\* str.endswith(suffix)
EndsWith(s, suffix) ==
    /\ Len(suffix) <= Len(s)
    /\ SubSeq(s, Len(s) - Len(suffix) + 1, Len(s)) = suffix

\* pattern[:-1]
DropLast(s) == SubSeq(s, 1, Len(s) - 1)

\* not x, for an Optional[str]
Falsy(x) == x = None \/ x = Empty

----------------------------------------------------------------------------
(* class UserRole                                                          *)

ADMIN == <<"a", "d", "m", "i", "n">>

LEADER == <<"p", "r", "o", "j", "e", "c", "t", "-", "l", "e", "a", "d", "e", "r">>

STAFF == <<"p", "r", "o", "j", "e", "c", "t", "-", "s", "t", "a", "f", "f">>

SUPPER_LEADER == <<"s", "u", "p", "p", "e", "r", "-", "l", "e", "a", "d", "e", "r">>

----------------------------------------------------------------------------
(* class RBACConfig                                                        *)

\* RBACConfig.__init__: the object every AuthMiddleware() builds.
RBACConfig ==
    [ staff_restricted_endpoints |->
          [ DELETE |-> <<Star>>, POST |-> <<Empty>>, PUT |-> <<Empty>> ],
      admin_endpoints  |-> [ c \in {"*"} |-> <<Star>> ],
      leader_endpoints |-> [ c \in {"*"} |-> <<Star>> ] ]

\* A matcher without the match-everything branch.
is_path_matched_no_star(pattern, path) ==
    IF EndsWith(pattern, SlashStar)
    THEN StartsWith(path, DropLast(pattern))
    ELSE pattern = path

\* A matcher that strips the whole "/*" suffix instead of the "*" alone.
is_path_matched_strip2(pattern, path) ==
    IF pattern = Star THEN TRUE
    ELSE IF EndsWith(pattern, SlashStar)
         THEN StartsWith(path, SubSeq(pattern, 1, Len(pattern) - 2))
         ELSE pattern = path

\* A matcher whose exact branch is a prefix test.
is_path_matched_prefix(pattern, path) ==
    IF pattern = Star THEN TRUE
    ELSE IF EndsWith(pattern, SlashStar)
         THEN StartsWith(path, DropLast(pattern))
         ELSE StartsWith(path, pattern)

is_path_matched(pattern, path) ==
    IF pattern = Star THEN TRUE
    ELSE IF EndsWith(pattern, SlashStar)
         THEN StartsWith(path, DropLast(pattern))
         ELSE pattern = path

\* The loop of is_endpoint_restricted over the patterns of one method.
any_pattern_matched(restricted_paths, path) ==
    \E i \in 1..Len(restricted_paths) : is_path_matched(restricted_paths[i], path)

\* An evaluator that has lost its full-access early return and its staff test:
\* every role is held against the table.
is_endpoint_restricted_run_all_roles(self, method, path, role) ==
    IF method \in DOMAIN self.staff_restricted_endpoints
    THEN [ restricted |-> any_pattern_matched(self.staff_restricted_endpoints[method], path),
           consulted  |-> TRUE ]
    ELSE [ restricted |-> FALSE, consulted |-> TRUE ]

\* An evaluator that denies a staff request whose method has no table entry.
is_endpoint_restricted_run_deny_unlisted(self, method, path, role) ==
    IF Lower(role) \in {ADMIN, LEADER, SUPPER_LEADER}
    THEN [ restricted |-> FALSE, consulted |-> FALSE ]
    ELSE IF Lower(role) = STAFF
         THEN IF method \in DOMAIN self.staff_restricted_endpoints
              THEN [ restricted |->
                         any_pattern_matched(self.staff_restricted_endpoints[method], path),
                     consulted  |-> TRUE ]
              ELSE [ restricted |-> TRUE, consulted |-> TRUE ]
         ELSE [ restricted |-> FALSE, consulted |-> FALSE ]

\* An evaluator that holds every role without full access against the table,
\* not project-staff alone.
is_endpoint_restricted_run_any_other_role(self, method, path, role) ==
    IF Lower(role) \in {ADMIN, LEADER, SUPPER_LEADER}
    THEN [ restricted |-> FALSE, consulted |-> FALSE ]
    ELSE IF method \in DOMAIN self.staff_restricted_endpoints
         THEN [ restricted |->
                    any_pattern_matched(self.staff_restricted_endpoints[method], path),
                consulted  |-> TRUE ]
         ELSE [ restricted |-> FALSE, consulted |-> TRUE ]

\* An evaluator that upper-cases the request's method before looking it up.
is_endpoint_restricted_run_method_upper(self, method, path, role) ==
    LET upper == IF method = "delete" THEN "DELETE" ELSE method
    IN  IF Lower(role) \in {ADMIN, LEADER, SUPPER_LEADER}
        THEN [ restricted |-> FALSE, consulted |-> FALSE ]
        ELSE IF Lower(role) = STAFF
             THEN IF upper \in DOMAIN self.staff_restricted_endpoints
                  THEN [ restricted |->
                             any_pattern_matched(self.staff_restricted_endpoints[upper], path),
                         consulted  |-> TRUE ]
                  ELSE [ restricted |-> FALSE, consulted |-> TRUE ]
             ELSE [ restricted |-> FALSE, consulted |-> FALSE ]

\* is_endpoint_restricted, with whether it looked the method up in the table.
is_endpoint_restricted_run(self, method, path, role) ==
    IF Lower(role) \in {ADMIN, LEADER, SUPPER_LEADER}
    THEN [ restricted |-> FALSE, consulted |-> FALSE ]
    ELSE IF Lower(role) = STAFF
         THEN IF method \in DOMAIN self.staff_restricted_endpoints
              THEN [ restricted |->
                         any_pattern_matched(self.staff_restricted_endpoints[method], path),
                     consulted  |-> TRUE ]
              ELSE [ restricted |-> FALSE, consulted |-> TRUE ]
         ELSE [ restricted |-> FALSE, consulted |-> FALSE ]

is_endpoint_restricted(self, method, path, role) ==
    is_endpoint_restricted_run(self, method, path, role).restricted


----------------------------------------------------------------------------
(* Settings (api/core/config.py) and the requests the transport hands in.  *)

MOCK_USER_ID_DEFAULT == <<"UUID", "a1b2c3d4-e5f6-7890-1234-567890abcdef">>

\* The role name the test fixtures configure for the mock staff user.
MockStaff == <<"s", "t", "a", "f", "f">>

\* The Settings objects the process can start with: the class defaults and
\* the values the environment or a fixture overrides them with.
Settings ==
    [ AUTH_ENABLED   : BOOLEAN,
      MOCK_USER_ID   : {MOCK_USER_ID_DEFAULT},
      MOCK_USER_ROLE : {ADMIN, STAFF, MockStaff} ]

HTTP_401_UNAUTHORIZED == 401

HTTP_403_FORBIDDEN == 403

HTTP_500_INTERNAL_SERVER_ERROR == 500

PathDocs == <<"/", "d", "o", "c", "s">>

PathRedoc == <<"/", "r", "e", "d", "o", "c">>

PathOpenapi == <<"/", "o", "p", "e", "n", "a", "p", "i", ".", "j", "s", "o", "n">>

\* The literal list of auth_middleware's first test.
BypassPaths == {PathDocs, PathRedoc, PathOpenapi}

PathDocsSlash == <<"/", "d", "o", "c", "s", "/">>

PathDocsX == <<"/", "d", "o", "c", "s", "/", "x">>

PathDomains == <<"/", "d", "o", "m", "a", "i", "n", "s">>

PathRoot == <<"/">>

Paths == BypassPaths \cup {PathDocsSlash, PathDocsX, PathDomains, PathRoot}

Methods == {"GET", "POST", "PUT", "DELETE", "PATCH"}

UserId1 == <<"u", "1">>

\* Values of request.headers.get("x-user-id"): absent, empty, a user id.
UserIdHeaders == {None, Empty, UserId1}

RoleAdminCap == <<"A", "d", "m", "i", "n">>

RoleAdminUpper == <<"A", "D", "M", "I", "N">>

RoleStaffCap == <<"P", "r", "o", "j", "e", "c", "t", "-", "S", "t", "a", "f", "f">>

RoleStaffUpper == <<"P", "R", "O", "J", "E", "C", "T", "-", "S", "T", "A", "F", "F">>

RoleSuperLeader == <<"s", "u", "p", "e", "r", "-", "l", "e", "a", "d", "e", "r">>

RoleGuest == <<"g", "u", "e", "s", "t">>

\* Role strings a caller can send or configure.
RoleStrings ==
    { ADMIN, RoleAdminCap, RoleAdminUpper, STAFF, RoleStaffCap, RoleStaffUpper,
      LEADER, SUPPER_LEADER, RoleSuperLeader, RoleGuest }

\* Values of request.headers.get("x-user-role"): absent, empty, a role string.
RoleHeaders == {None, Empty} \cup RoleStrings

\* request.state before anything is stored on it.
NoState == [ user_id |-> None, user_role |-> None ]

NoDetail == [ msg |-> "", role |-> None, method |-> "", path |-> None ]

NoResponse == [ status |-> 0, body |-> NoDetail ]

\* JSONResponse(status_code=..., content={"detail": detail})
JSONResponse(status_code, detail) == [ status |-> status_code, body |-> detail ]

MissingDetail ==
    [ msg |-> "Missing user information in headers",
      role |-> None, method |-> "", path |-> None ]

\* f"Access denied for role {user_role} to {request.method} {request.url.path}"
DeniedDetail(user_role, method, path) ==
    [ msg |-> "Access denied for role", role |-> user_role,
      method |-> method, path |-> path ]

InternalDetail ==
    [ msg |-> "Internal server error", role |-> None, method |-> "", path |-> None ]

----------------------------------------------------------------------------
(* class AuthMiddleware                                                    *)

\* get_user_info that takes the mock identity only when the headers are absent.
get_user_info_headers_first(s, request) ==
    IF ~Falsy(request.user_id_header) /\ ~Falsy(request.user_role_header)
    THEN [ ok |-> TRUE, user_id |-> request.user_id_header,
           user_role |-> Lower(request.user_role_header) ]
    ELSE IF ~s.AUTH_ENABLED
         THEN [ ok |-> TRUE, user_id |-> s.MOCK_USER_ID, user_role |-> s.MOCK_USER_ROLE ]
         ELSE [ ok |-> FALSE, user_id |-> None, user_role |-> None ]

\* get_user_info that only requires the role header.
get_user_info_role_only(s, request) ==
    IF ~s.AUTH_ENABLED
    THEN [ ok |-> TRUE, user_id |-> s.MOCK_USER_ID, user_role |-> s.MOCK_USER_ROLE ]
    ELSE IF Falsy(request.user_role_header)
         THEN [ ok |-> FALSE, user_id |-> None, user_role |-> None ]
         ELSE [ ok |-> TRUE, user_id |-> request.user_id_header,
                user_role |-> Lower(request.user_role_header) ]

\* A resolver that only tests the headers for None: an empty value passes.
get_user_info_none_only(s, request) ==
    IF ~s.AUTH_ENABLED
    THEN [ ok |-> TRUE, user_id |-> s.MOCK_USER_ID, user_role |-> s.MOCK_USER_ROLE ]
    ELSE IF request.user_id_header = None \/ request.user_role_header = None
         THEN [ ok |-> FALSE, user_id |-> None, user_role |-> None ]
         ELSE [ ok |-> TRUE, user_id |-> request.user_id_header,
                user_role |-> Lower(request.user_role_header) ]

\* get_user_info: ok = FALSE is the HTTPException(401) it raises.
get_user_info(s, request) ==
    IF ~s.AUTH_ENABLED
    THEN [ ok |-> TRUE, user_id |-> s.MOCK_USER_ID, user_role |-> s.MOCK_USER_ROLE ]
    ELSE IF Falsy(request.user_id_header) \/ Falsy(request.user_role_header)
         THEN [ ok |-> FALSE, user_id |-> None, user_role |-> None ]
         ELSE [ ok |-> TRUE, user_id |-> request.user_id_header,
                user_role |-> Lower(request.user_role_header) ]

\* check_access that lets every request through.
check_access_run_allow_all(s, method, path, role) ==
    [ allowed |-> TRUE, evaluated |-> FALSE, consulted |-> FALSE ]

\* check_access that returns the evaluator's answer without negating it.
check_access_run_negated(s, method, path, role) ==
    IF ~s.AUTH_ENABLED
    THEN [ allowed |-> TRUE, evaluated |-> FALSE, consulted |-> FALSE ]
    ELSE LET e == is_endpoint_restricted_run(rbac_config, method, path, role)
         IN  [ allowed |-> e.restricted, evaluated |-> TRUE, consulted |-> e.consulted ]

\* check_access without the switch: the policy is evaluated whether or not
\* auth is enabled.
check_access_run_always_evaluates(s, method, path, role) ==
    LET e == is_endpoint_restricted_run(rbac_config, method, path, role)
    IN  [ allowed |-> ~e.restricted, evaluated |-> TRUE, consulted |-> e.consulted ]

\* check_access, with whether it ran the policy evaluator and the table lookup.
check_access_run(s, method, path, role) ==
    IF ~s.AUTH_ENABLED
    THEN [ allowed |-> TRUE, evaluated |-> FALSE, consulted |-> FALSE ]
    ELSE LET e == is_endpoint_restricted_run(rbac_config, method, path, role)
         IN  [ allowed |-> ~e.restricted, evaluated |-> TRUE, consulted |-> e.consulted ]

----------------------------------------------------------------------------
(* auth_middleware                                                         *)

\* A bypass test that also lets everything below a documentation path through.
is_bypass_prefix(path) == \E b \in BypassPaths : StartsWith(path, b)

\* request.url.path in ["/docs", "/redoc", "/openapi.json"]
is_bypass(path) == path \in BypassPaths

\* A middleware that stores the identity on request.state only once
\* check_access has let the request through.
auth_middleware_run_store_after_check(s, request) ==
    IF is_bypass(request.path)
    THEN [ pc |-> "call_next", state |-> NoState, response |-> NoResponse,
           calls |-> {"call_next"} ]
    ELSE LET u == get_user_info(s, request)
         IN  IF ~u.ok
             THEN [ pc |-> "done", state |-> NoState,
                    response |-> JSONResponse(HTTP_401_UNAUTHORIZED, MissingDetail),
                    calls |-> {"get_user_info"} ]
             ELSE LET a  == check_access_run(s, request.method, request.path, u.user_role)
                      id == [ user_id |-> u.user_id, user_role |-> u.user_role ]
                      ran == {"get_user_info", "check_access"}
                               \cup (IF a.evaluated THEN {"is_endpoint_restricted"} ELSE {})
                               \cup (IF a.consulted THEN {"staff_restricted_endpoints"} ELSE {})
                  IN  IF ~a.allowed
                      THEN [ pc |-> "done", state |-> NoState,
                             response |->
                                 JSONResponse(HTTP_403_FORBIDDEN,
                                     DeniedDetail(u.user_role, request.method, request.path)),
                             calls |-> ran ]
                      ELSE [ pc |-> "call_next", state |-> id, response |-> NoResponse,
                             calls |-> ran \cup {"call_next"} ]

\* call_next has raised nothing.
NoException == [ type |-> "", status |-> 0, detail |-> NoDetail ]

\* What auth_middleware does with a request up to the point where it either
\* awaits call_next or returns a response of its own.  calls records which
\* parts of the code ran for the request.
auth_middleware_run(s, request) ==
    IF is_bypass(request.path)
    THEN [ pc |-> "call_next", state |-> NoState, response |-> NoResponse,
           calls |-> {"call_next"} ]
    ELSE LET u == get_user_info(s, request)
         IN  IF ~u.ok
             THEN [ pc |-> "done", state |-> NoState,
                    response |-> JSONResponse(HTTP_401_UNAUTHORIZED, MissingDetail),
                    calls |-> {"get_user_info"} ]
             ELSE LET a  == check_access_run(s, request.method, request.path, u.user_role)
                      id == [ user_id |-> u.user_id, user_role |-> u.user_role ]
                      ran == {"get_user_info", "check_access"}
                               \cup (IF a.evaluated THEN {"is_endpoint_restricted"} ELSE {})
                               \cup (IF a.consulted THEN {"staff_restricted_endpoints"} ELSE {})
                  IN  IF ~a.allowed
                      THEN [ pc |-> "done", state |-> id,
                             response |->
                                 JSONResponse(HTTP_403_FORBIDDEN,
                                     DeniedDetail(u.user_role, request.method, request.path)),
                             calls |-> ran ]
                      ELSE [ pc |-> "call_next", state |-> id, response |-> NoResponse,
                             calls |-> ran \cup {"call_next"} ]

\* No request in the middleware.
IdleRequest ==
    [ pc |-> "idle", method |-> "", path |-> None,
      user_id_header |-> None, user_role_header |-> None,
      state |-> NoState, response |-> NoResponse, calls |-> {},
      handler_calls |-> 0, handler_response |-> NoResponse,
      handler_raised |-> NoException ]

\* Status codes the wrapped application answers with.
HandlerStatuses == {200, 204, 404}

HandlerDetail == [ msg |-> "handler", role |-> None, method |-> "", path |-> None ]

\* Status codes of the HTTPExceptions call_next can raise.
HandlerErrorStatuses == {404, 422}

HandlerErrorDetail ==
    [ msg |-> "handler HTTPException", role |-> None, method |-> "", path |-> None ]

\* Arguments and result of a direct call of an RBACConfig method.
NoArgs == [ fn |-> "", pattern |-> None, path |-> None, method |-> "", role |-> None ]

NoRet == [ done |-> FALSE, value |-> FALSE, consulted |-> FALSE ]

\* A database without rows.
NoRows == {}

\* create_sample_data is not running.
NoSample == [ pc |-> "off" ]

\* raise HTTPException(status_code=..., detail=...)
HTTPException(status_code, detail) ==
    [ type |-> "HTTPException", status |-> status_code, detail |-> detail ]

\* Any exception that is no HTTPException.
Exception == [ type |-> "Exception", status |-> 0, detail |-> NoDetail ]

\* Except clauses that answer every exception alike, an HTTPException too,
\* with the generic 500.
except_clauses_all_500(exc) ==
    [ pc |-> "done",
      response |-> JSONResponse(HTTP_500_INTERNAL_SERVER_ERROR, InternalDetail) ]

\* The except clauses without the catch-all: any other exception leaves
\* auth_middleware.
except_clauses_http_only(exc) ==
    IF exc.type = "HTTPException"
    THEN [ pc |-> "done", response |-> JSONResponse(exc.status, exc.detail) ]
    ELSE [ pc |-> "raised", response |-> NoResponse ]

\* The two except clauses of auth_middleware: the response an exception raised
\* in the try block is turned into (pc = "raised" would be the exception
\* leaving auth_middleware).
except_clauses(exc) ==
    IF exc.type = "HTTPException"
    THEN [ pc |-> "done", response |-> JSONResponse(exc.status, exc.detail) ]
    ELSE [ pc |-> "done",
           response |-> JSONResponse(HTTP_500_INTERNAL_SERVER_ERROR, InternalDetail) ]

\* A middleware that builds its own 200 answer around the handler's body.
return_response_rewrapped(response) == JSONResponse(200, response.body)

\* response = await call_next(request); return response
return_response(response) == response

\* The transport hands a request to the middleware stack.
Receive ==
    /\ req.pc = "idle"
    /\ \E m \in Methods, p \in Paths, uid \in UserIdHeaders, role \in RoleHeaders :
          req' = [ IdleRequest EXCEPT !.pc = "received", !.method = m, !.path = p,
                                      !.user_id_header = uid, !.user_role_header = role ]
    /\ UNCHANGED <<settings, rbac_config, reqs, args, ret, db, sample>>

\* A middleware that remembers the identity it last turned away in the
\* process-wide settings.
auth_middleware_remembers_denied ==
    /\ req.pc = "received"
    /\ LET r == auth_middleware_run(settings, req)
       IN  /\ req' = [ req EXCEPT !.pc = r.pc, !.state = r.state,
                                  !.response = r.response, !.calls = r.calls,
                                  !.handler_calls =
                                      @ + (IF r.pc = "call_next" THEN 1 ELSE 0) ]
           /\ settings' = IF r.pc = "done" /\ r.response.status = HTTP_403_FORBIDDEN
                          THEN [ settings EXCEPT !.MOCK_USER_ID = r.state.user_id,
                                                 !.MOCK_USER_ROLE = r.state.user_role ]
                          ELSE settings
    /\ UNCHANGED <<rbac_config, reqs, args, ret, db, sample>>

\* auth_middleware runs from its entry to its first await of call_next or to
\* the response it builds itself.
auth_middleware ==
    /\ req.pc = "received"
    /\ LET r == auth_middleware_run(settings, req)
       IN  req' = [ req EXCEPT !.pc = r.pc, !.state = r.state,
                               !.response = r.response, !.calls = r.calls,
                               !.handler_calls =
                                   @ + (IF r.pc = "call_next" THEN 1 ELSE 0) ]
    /\ UNCHANGED <<settings, rbac_config, reqs, args, ret, db, sample>>

\* call_next returns the application's response; the middleware returns it.
call_next_returns ==
    /\ req.pc = "call_next"
    /\ \E st \in HandlerStatuses :
          LET response == [ status |-> st, body |-> HandlerDetail ]
          IN  req' = [ req EXCEPT !.pc = "done",
                                  !.handler_response = response,
                                  !.response = return_response(response) ]
    /\ UNCHANGED <<settings, rbac_config, reqs, args, ret, db, sample>>

\* call_next raises an HTTPException: the first except clause answers with it.
call_next_raises_http ==
    /\ req.pc = "call_next"
    /\ \E st \in HandlerErrorStatuses :
          LET exc    == HTTPException(st, HandlerErrorDetail)
              caught == except_clauses(exc)
          IN  req' = [ req EXCEPT !.pc = caught.pc, !.response = caught.response,
                                  !.handler_raised = exc ]
    /\ UNCHANGED <<settings, rbac_config, reqs, args, ret, db, sample>>

\* A middleware that runs the request again when the handler fails.
call_next_raises_retry ==
    /\ req.pc = "call_next"
    /\ req.handler_calls < 2
    /\ req' = [ req EXCEPT !.pc = "received" ]
    /\ UNCHANGED <<settings, rbac_config, reqs, args, ret, db, sample>>

\* call_next raises any other exception: the second except clause answers 500.
call_next_raises ==
    /\ req.pc = "call_next"
    /\ LET caught == except_clauses(Exception)
       IN  req' = [ req EXCEPT !.pc = caught.pc, !.response = caught.response,
                               !.handler_raised = Exception ]
    /\ UNCHANGED <<settings, rbac_config, reqs, args, ret, db, sample>>

\* The response has gone out and the request object is dropped.
Finish ==
    /\ req.pc = "done"
    /\ req' = IdleRequest
    /\ UNCHANGED <<settings, rbac_config, reqs, args, ret, db, sample>>

Init ==
    /\ settings \in Settings
    /\ rbac_config = RBACConfig
    /\ req = IdleRequest
    /\ reqs = <<>>
    /\ args = NoArgs
    /\ ret = NoRet
    /\ db = NoRows
    /\ sample = NoSample

Next ==
    \/ Receive
    \/ auth_middleware
    \/ call_next_returns
    \/ call_next_raises_http
    \/ call_next_raises
    \/ Finish

Spec == Init /\ [][Next]_vars

----------------------------------------------------------------------------
(* Direct calls of RBACConfig.is_path_matched and                          *)
(* RBACConfig.is_endpoint_restricted on bounded inputs.                    *)

Alphabet == {"f", "o", "/", "*"}

\* Every string over Alphabet of at most MaxLen characters.
GenStrings == UNION { [1..n -> Alphabet] : n \in 0..MaxLen }

Foo == <<"f", "o", "o">>

FooSlash == <<"f", "o", "o", "/">>

FooBar == <<"f", "o", "o", "/", "b", "a", "r">>

FoBar == <<"f", "o", "/", "b", "a", "r">>

FooSlashStar == <<"f", "o", "o", "/", "*">>

DomainsSlashStar == <<"/", "d", "o", "m", "a", "i", "n", "s", "/", "*">>

PathDomains1 == <<"/", "d", "o", "m", "a", "i", "n", "s", "/", "1">>

NamedStrings ==
    { Foo, FooSlash, FooBar, FoBar, FooSlashStar, DomainsSlashStar, PathDomains1 }

MatchStrings == GenStrings \cup NamedStrings \cup Paths

EvalMethods == Methods \cup {"OPTIONS", "HEAD", "delete", "*"}

EvalPaths == GenStrings \cup NamedStrings \cup Paths

EvalRoles == RoleStrings \cup {Empty, MockStaff}

MatchArgs ==
    { [ NoArgs EXCEPT !.fn = "is_path_matched", !.pattern = pat, !.path = p ] :
          pat \in MatchStrings, p \in MatchStrings }

EvalArgs ==
    { [ NoArgs EXCEPT !.fn = "is_endpoint_restricted",
                      !.method = m, !.path = p, !.role = r ] :
          m \in EvalMethods, p \in EvalPaths, r \in EvalRoles }

InitRBAC ==
    /\ settings = [ AUTH_ENABLED |-> FALSE, MOCK_USER_ID |-> MOCK_USER_ID_DEFAULT,
                    MOCK_USER_ROLE |-> ADMIN ]
    /\ rbac_config = RBACConfig
    /\ req = IdleRequest
    /\ reqs = <<>>
    /\ args \in MatchArgs \cup EvalArgs
    /\ ret = NoRet
    /\ db = NoRows
    /\ sample = NoSample

call_is_path_matched ==
    /\ args.fn = "is_path_matched"
    /\ ~ret.done
    /\ ret' = [ done |-> TRUE, value |-> is_path_matched(args.pattern, args.path),
                consulted |-> FALSE ]
    /\ UNCHANGED <<settings, rbac_config, req, reqs, args, db, sample>>

call_is_endpoint_restricted ==
    /\ args.fn = "is_endpoint_restricted"
    /\ ~ret.done
    /\ LET e == is_endpoint_restricted_run(rbac_config, args.method, args.path, args.role)
       IN  ret' = [ done |-> TRUE, value |-> e.restricted, consulted |-> e.consulted ]
    /\ UNCHANGED <<settings, rbac_config, req, reqs, args, db, sample>>

NextRBAC ==
    \/ call_is_path_matched
    \/ call_is_endpoint_restricted

SpecRBAC == InitRBAC /\ [][NextRBAC]_vars

----------------------------------------------------------------------------
(* Properties of the middleware (Spec).                                    *)

\* auth_middleware has run for the request in req.
Processed == req.pc \in {"call_next", "done"}

\* The parts of the code that resolve the identity and evaluate the policy.
GateCalls == {"get_user_info", "check_access", "is_endpoint_restricted"}

\* A header that carries a value: request.headers.get(...) is a non-empty string.
HasValue(h) == h # None /\ h # Empty

StaffDelete ==
    /\ settings.AUTH_ENABLED
    /\ Processed
    /\ req.user_role_header # None
    /\ Lower(req.user_role_header) = STAFF
    /\ req.method = "DELETE"
    /\ req.path \notin BypassPaths

Denied403 ==
    /\ req.pc = "done"
    /\ req.response.status = HTTP_403_FORBIDDEN
    /\ "call_next" \notin req.calls

\* C1 as stated: with auth enabled and both identity headers present (sent,
\* whatever their value), a project-staff DELETE outside the bypass set is
\* answered 403 and call_next is not invoked.
C1_AsStated ==
    (StaffDelete /\ req.user_id_header # None) => Denied403

\* C1, amended: with auth enabled and both identity headers present with a
\* non-empty value, every project-staff DELETE outside the bypass set is
\* answered 403 and call_next is not invoked for it.
C1_StaffDeleteForbidden ==
    (StaffDelete /\ HasValue(req.user_id_header)) => Denied403

C1_Witness ==
    /\ StaffDelete
    /\ req.user_id_header = UserId1
    /\ req.user_role_header = STAFF
    /\ req.path = PathDomains
    /\ Denied403
    /\ req.response.body = DeniedDetail(STAFF, "DELETE", PathDomains)

\* C2: with auth enabled, a non-bypass request that lacks the x-user-id or the
\* x-user-role header is answered 401, and neither the policy evaluator nor
\* call_next runs for it, whatever its method and path.
C2_MissingHeader401 ==
    ( /\ settings.AUTH_ENABLED
      /\ Processed
      /\ req.path \notin BypassPaths
      /\ (req.user_id_header = None \/ req.user_role_header = None) )
    => /\ req.pc = "done"
       /\ req.response = JSONResponse(HTTP_401_UNAUTHORIZED, MissingDetail)
       /\ req.calls \cap {"check_access", "is_endpoint_restricted", "call_next"} = {}
       /\ req.state = NoState

C2_Witness ==
    /\ settings.AUTH_ENABLED
    /\ req.pc = "done"
    /\ req.method = "DELETE"
    /\ req.path = PathDomains
    /\ req.user_id_header = None
    /\ req.user_role_header = STAFF
    /\ req.response.status = HTTP_401_UNAUTHORIZED
    /\ req.calls = {"get_user_info"}

\* C8: with auth disabled the resolver returns the configured mock identity
\* for every request it runs for, whatever identity headers the request
\* carries or omits.
C8_MockIdentity ==
    ( /\ ~settings.AUTH_ENABLED
      /\ Processed
      /\ req.path \notin BypassPaths )
    => /\ "get_user_info" \in req.calls
       /\ req.state = [ user_id |-> settings.MOCK_USER_ID,
                        user_role |-> settings.MOCK_USER_ROLE ]

C8_Witness ==
    /\ ~settings.AUTH_ENABLED
    /\ settings.MOCK_USER_ROLE = ADMIN
    /\ Processed
    /\ req.user_id_header = UserId1
    /\ req.user_role_header = STAFF
    /\ req.state = [ user_id |-> MOCK_USER_ID_DEFAULT, user_role |-> ADMIN ]

\* C9: a request skips both identity resolution and policy evaluation if and
\* only if its path is exactly /docs, /redoc or /openapi.json; such a request
\* goes to the handler with no identity attached, even header-less with auth
\* enabled, and any other path goes through resolution.
C9_BypassExactly ==
    Processed =>
        /\ (req.calls \cap GateCalls = {}) <=> (req.path \in BypassPaths)
        /\ (req.path \in BypassPaths) =>
               ("call_next" \in req.calls /\ req.state = NoState)
        /\ (req.path \notin BypassPaths) =>
               "get_user_info" \in req.calls

C9_Witness ==
    /\ settings.AUTH_ENABLED
    /\ req.pc = "call_next"
    /\ req.path = PathOpenapi
    /\ req.method = "DELETE"
    /\ req.user_id_header = None
    /\ req.user_role_header = None
    /\ req.calls = {"call_next"}

\* Two strings equal up to the case of their letters.
SameUpToCase(a, b) ==
    /\ Len(a) = Len(b)
    /\ \A i \in 1..Len(a) : LowerChar(a[i]) = LowerChar(b[i])

\* C10: the access decision does not depend on the letter case of the
\* x-user-role header: a request and any request that differs from it only in
\* the case of the role value get the same outcome, and every casing of admin
\* is let through to the handler.
C10_RoleCaseInsensitive ==
    (Processed /\ req.user_role_header \in RoleStrings) =>
        /\ \A v \in RoleStrings :
              SameUpToCase(v, req.user_role_header) =>
                  LET twin == auth_middleware_run(settings,
                                  [ req EXCEPT !.user_role_header = v ])
                  IN  /\ twin.calls = req.calls
                      /\ twin.state = req.state
                      /\ "call_next" \notin req.calls => twin.response = req.response
        /\ SameUpToCase(req.user_role_header, ADMIN) =>
              /\ "call_next" \notin req.calls =>
                     req.response.status # HTTP_403_FORBIDDEN
              /\ (settings.AUTH_ENABLED /\ HasValue(req.user_id_header)) =>
                     "call_next" \in req.calls

C10_Witness ==
    /\ settings.AUTH_ENABLED
    /\ req.pc = "done"
    /\ req.method = "DELETE"
    /\ req.path = PathDomains
    /\ req.user_id_header = UserId1
    /\ req.user_role_header = RoleStaffCap
    /\ req.state.user_role = STAFF
    /\ req.response.status = HTTP_403_FORBIDDEN

----------------------------------------------------------------------------
(* Properties of the RBAC policy evaluator and the matcher (SpecRBAC).     *)

Evaluated == args.fn = "is_endpoint_restricted" /\ ret.done

Matched == args.fn = "is_path_matched" /\ ret.done

\* C3: for the roles admin, project-leader and super-leader (in either
\* spelling the sources use for the last), and every method and path, the
\* evaluator answers "not restricted" without looking into the forbidden-path
\* table.
C3_FullAccessRoles ==
    ( /\ Evaluated
      /\ \E r \in {ADMIN, LEADER, RoleSuperLeader, SUPPER_LEADER} :
            SameUpToCase(args.role, r) )
    => (~ret.value /\ ~ret.consulted)

C3_Witness ==
    /\ Evaluated
    /\ args.role = RoleSuperLeader
    /\ args.method = "DELETE"
    /\ args.path = PathDomains
    /\ ~ret.value

\* C4: for role project-staff and method DELETE the evaluator answers
\* "restricted" for every path, under the default table.
C4_StaffDeleteRestricted ==
    ( /\ Evaluated
      /\ SameUpToCase(args.role, STAFF)
      /\ args.method = "DELETE" )
    => ret.value

C4_Witness ==
    /\ Evaluated
    /\ args.role = STAFF
    /\ args.method = "DELETE"
    /\ args.path = FooBar
    /\ ret.value

\* C5: for role project-staff and method POST or PUT the evaluator answers
\* "not restricted" for every non-empty path: the one pattern configured for
\* those methods is the empty string, which matches the empty path only.
C5_StaffPostPutOpen ==
    ( /\ Evaluated
      /\ SameUpToCase(args.role, STAFF)
      /\ args.method \in {"POST", "PUT"} )
    => /\ RBACConfig.staff_restricted_endpoints[args.method] = <<Empty>>
       /\ ret.value <=> (args.path = Empty)

C5_Witness ==
    /\ Evaluated
    /\ args.role = STAFF
    /\ args.method = "POST"
    /\ args.path = PathDomains
    /\ ~ret.value
    /\ ret.consulted

\* C6: for role project-staff and a method that is no key of the
\* forbidden-path table the evaluator answers "not restricted" for every path.
C6_StaffUnlistedMethodOpen ==
    ( /\ Evaluated
      /\ SameUpToCase(args.role, STAFF)
      /\ args.method \notin {"DELETE", "POST", "PUT"} )
    => ~ret.value

C6_Witness ==
    /\ Evaluated
    /\ args.role = STAFF
    /\ args.method = "GET"
    /\ args.path = PathDomains
    /\ ~ret.value
    /\ ret.consulted

\* pattern ends in "/*".
IsPrefixPattern(pattern) ==
    /\ Len(pattern) >= 2
    /\ pattern[Len(pattern) - 1] = "/"
    /\ pattern[Len(pattern)] = "*"

\* path begins with the first n characters of pattern.
AgreeOnFirst(n, pattern, path) ==
    /\ Len(path) >= n
    /\ \A i \in 1..n : path[i] = pattern[i]

\* The matches the specification names.
MatchExamples ==
    { <<Star, Empty, TRUE>>, <<Star, FooBar, TRUE>>,
      <<FooSlashStar, FooSlash, TRUE>>, <<FooSlashStar, FooBar, TRUE>>,
      <<FooSlashStar, FoBar, FALSE>>, <<FooSlashStar, Foo, FALSE>>,
      <<Foo, Foo, TRUE>>, <<Foo, FooSlash, FALSE>>, <<Foo, FooBar, FALSE>>,
      <<Foo, Empty, FALSE>> }

\* C7: is_path_matched(pattern, path) is true exactly when pattern is "*", or
\* pattern ends in "/*" and path starts with pattern minus its trailing "*",
\* or pattern is any other pattern and equals path; so "foo/*" matches "foo/"
\* and "foo/bar" but neither "fo/bar" nor "foo".
C7_PathMatched ==
    Matched =>
        /\ ret.value <=>
              \/ args.pattern = Star
              \/ /\ IsPrefixPattern(args.pattern)
                 /\ AgreeOnFirst(Len(args.pattern) - 1, args.pattern, args.path)
              \/ /\ args.pattern # Star
                 /\ ~IsPrefixPattern(args.pattern)
                 /\ args.pattern = args.path
        /\ \A e \in MatchExamples :
              (args.pattern = e[1] /\ args.path = e[2]) => (ret.value = e[3])

C7_Witness ==
    /\ Matched
    /\ args.pattern = FooSlashStar
    /\ args.path = FooSlash
    /\ ret.value

----------------------------------------------------------------------------
(* Further properties of the middleware (Spec).                            *)

\* The request has been handed to the wrapped handler.
Dispatched == "call_next" \in req.calls

\* An identity, user id and role, is stored on request.state.
IdentityAttached == req.state.user_id # None /\ req.state.user_role # None

\* C11 as stated: every request dispatched to the wrapped handler has a
\* resolved identity attached, and identity resolution has run for it unless
\* auth is globally disabled.
C11_AsStated ==
    Dispatched =>
        /\ IdentityAttached
        /\ ("get_user_info" \in req.calls \/ ~settings.AUTH_ENABLED)

\* C11, amended: every request outside the bypass set that has been dispatched
\* to the wrapped handler has one resolved identity (user id, role) attached
\* to its request state, and identity resolution has run for it; a request for
\* /docs, /redoc or /openapi.json is dispatched with no identity.
C11_DispatchedHasIdentity ==
    Dispatched =>
        /\ req.path \notin BypassPaths =>
               (IdentityAttached /\ "get_user_info" \in req.calls)
        /\ req.path \in BypassPaths =>
               (req.state = NoState /\ "get_user_info" \notin req.calls)

C11_Witness ==
    /\ settings.AUTH_ENABLED
    /\ req.pc = "call_next"
    /\ req.method = "GET"
    /\ req.path = PathDomains
    /\ req.user_id_header = UserId1
    /\ req.user_role_header = RoleGuest
    /\ req.state = [ user_id |-> UserId1, user_role |-> RoleGuest ]

\* The default rule table restricts the resolved role from the request.
RestrictedByPolicy ==
    is_endpoint_restricted(RBACConfig, req.method, req.path, req.state.user_role)

Resolved ==
    /\ Processed
    /\ req.path \notin BypassPaths
    /\ IdentityAttached

\* C12 as stated: for every non-bypass request whose identity resolution
\* succeeds, from the headers or from the mock identity, a role the policy
\* evaluator restricts for the method and path is answered 403 and the handler
\* does not run.
C12_AsStated ==
    (Resolved /\ RestrictedByPolicy) => Denied403

\* C12, amended: with auth enabled, for every non-bypass request whose identity
\* resolution succeeds the middleware applies the policy evaluator to the
\* resolved role, and whenever the evaluator says "restricted" the response is
\* 403 and the handler does not run; with auth disabled the evaluator is not
\* applied.
C12_RestrictedIs403 ==
    Resolved =>
        /\ settings.AUTH_ENABLED =>
               /\ "is_endpoint_restricted" \in req.calls
               /\ RestrictedByPolicy => Denied403
        /\ ~settings.AUTH_ENABLED => "is_endpoint_restricted" \notin req.calls

C12_Witness ==
    /\ settings.AUTH_ENABLED
    /\ Resolved
    /\ req.user_role_header = RoleStaffUpper
    /\ req.method = "DELETE"
    /\ req.path = PathRoot
    /\ RestrictedByPolicy
    /\ Denied403

----------------------------------------------------------------------------
(* Further properties of the policy evaluator (SpecRBAC).                  *)

\* The role is one of admin, project-leader, super-leader (either spelling).
FullAccessRole(role) ==
    \E r \in {ADMIN, LEADER, RoleSuperLeader, SUPPER_LEADER} : SameUpToCase(role, r)

\* C13 as stated: every role string that is not admin, project-leader or
\* super-leader, project-staff and unknown roles alike, is looked up in the
\* forbidden-path table and is restricted when a pattern matches, as for DELETE
\* on any path.
C13_AsStated ==
    (Evaluated /\ ~FullAccessRole(args.role)) =>
        /\ ret.consulted
        /\ args.method = "DELETE" => ret.value

\* C13, amended: only project-staff (in any letter case) is checked against
\* the forbidden-path table: for it the evaluator looks up the method and
\* answers "restricted" when a configured pattern matches the path, as for
\* DELETE on any path; every other role string, an unknown one such as guest
\* included, is never looked up and never restricted.
C13_OnlyStaffChecked ==
    Evaluated =>
        /\ ret.consulted <=> SameUpToCase(args.role, STAFF)
        /\ SameUpToCase(args.role, STAFF) =>
               /\ args.method = "DELETE" => ret.value
               /\ ret.value <=>
                      /\ args.method \in {"DELETE", "POST", "PUT"}
                      /\ \E i \in 1..Len(RBACConfig.staff_restricted_endpoints[args.method]) :
                            is_path_matched(
                                RBACConfig.staff_restricted_endpoints[args.method][i],
                                args.path)
        /\ ~SameUpToCase(args.role, STAFF) => ~ret.value

C13_Witness ==
    /\ Evaluated
    /\ args.role = RoleGuest
    /\ args.method = "DELETE"
    /\ args.path = PathDomains
    /\ ~ret.value
    /\ ~ret.consulted

----------------------------------------------------------------------------
(* The middleware with faults of the runtime: an exception that is no      *)
(* HTTPException is raised while the identity is resolved or the policy    *)
(* evaluated.                                                              *)

\* The places of the try block, before call_next, where a fault can strike.
FaultPlaces == {"get_user_info", "check_access"}

\* auth_middleware runs into an unexpected exception in get_user_info or in
\* check_access; the except clauses take it.  check_access is only reached
\* when get_user_info has returned, and then the identity is already stored.
auth_middleware_faults ==
    /\ req.pc = "received"
    /\ ~is_bypass(req.path)
    /\ \E at \in FaultPlaces :
          LET u      == get_user_info(settings, req)
              caught == except_clauses(Exception)
          IN  /\ at = "check_access" => u.ok
              /\ req' = [ req EXCEPT
                            !.pc = caught.pc,
                            !.response = caught.response,
                            !.state = IF at = "check_access"
                                      THEN [ user_id |-> u.user_id,
                                             user_role |-> u.user_role ]
                                      ELSE NoState,
                            !.calls = IF at = "check_access"
                                      THEN {"get_user_info", "check_access", "Exception"}
                                      ELSE {"get_user_info", "Exception"} ]
    /\ UNCHANGED <<settings, rbac_config, reqs, args, ret, db, sample>>

NextFault ==
    \/ Next
    \/ auth_middleware_faults

SpecFault == Init /\ [][NextFault]_vars

\* C14: a fault raised while the identity is resolved or the policy evaluated
\* that is neither the 401 nor the 403 condition is answered with HTTP 500 and
\* the body {"detail": "Internal server error"}, the handler not run; no
\* exception leaves auth_middleware.
C14_FaultIs500 ==
    /\ req.pc # "raised"
    /\ "Exception" \in req.calls =>
           /\ req.pc = "done"
           /\ req.response.status = 500
           /\ req.response.body.msg = "Internal server error"
           /\ "call_next" \notin req.calls
           /\ req.handler_calls = 0

C14_Witness ==
    /\ settings.AUTH_ENABLED
    /\ req.pc = "done"
    /\ req.calls = {"get_user_info", "check_access", "Exception"}
    /\ req.user_role_header = STAFF
    /\ req.method = "DELETE"
    /\ req.response = JSONResponse(HTTP_500_INTERNAL_SERVER_ERROR, InternalDetail)

\* C15: when the evaluator's answer is "not restricted" the middleware calls
\* the wrapped handler exactly once for the request, and the response it
\* returns is the handler's response, status and body unchanged.
C15_ForwardUnchanged ==
    /\ ( /\ Processed
         /\ "is_endpoint_restricted" \in req.calls
         /\ ~RestrictedByPolicy )
       => (Dispatched /\ req.handler_calls = 1)
    /\ (req.pc = "done" /\ req.handler_response # NoResponse)
       => /\ Dispatched
          /\ req.handler_calls = 1
          /\ req.response.status = req.handler_response.status
          /\ req.response.body = req.handler_response.body

C15_Witness ==
    /\ settings.AUTH_ENABLED
    /\ req.pc = "done"
    /\ req.user_role_header = STAFF
    /\ req.method = "POST"
    /\ req.path = PathDomains
    /\ "is_endpoint_restricted" \in req.calls
    /\ req.handler_response = [ status |-> 204, body |-> HandlerDetail ]
    /\ req.response = req.handler_response

----------------------------------------------------------------------------
(* The gate as a state machine: resolving, then decided.                   *)

\* A few requests of every kind: bypass and gated paths, headers absent and
\* present, full-access, staff and unknown roles.
FewMethods == {"GET", "DELETE"}

FewPaths == {PathDocs, PathDomains}

FewUserIdHeaders == {None, UserId1}

FewRoleHeaders == {None, ADMIN, STAFF, RoleStaffCap, RoleGuest}

\* The transport hands in one of the few requests.
ReceiveFew ==
    /\ req.pc = "idle"
    /\ \E m \in FewMethods, p \in FewPaths,
          uid \in FewUserIdHeaders, role \in FewRoleHeaders :
          req' = [ IdleRequest EXCEPT !.pc = "received", !.method = m, !.path = p,
                                      !.user_id_header = uid, !.user_role_header = role ]
    /\ UNCHANGED <<settings, rbac_config, reqs, args, ret, db, sample>>

NextGate ==
    \/ ReceiveFew
    \/ auth_middleware
    \/ auth_middleware_faults
    \/ call_next_returns
    \/ call_next_raises_http
    \/ call_next_raises
    \/ Finish

\* The event loop runs a request's auth_middleware coroutine once it has the
\* request: the step from "received" is eventually taken.
SpecFair == Init /\ [][NextGate]_vars /\ WF_vars(auth_middleware)

\* The gate has decided about the request in req.
Decided == req.pc \in {"call_next", "done"}

\* The gate's decision: allowed is the request handed to the handler.
Outcome ==
    IF Dispatched THEN "allowed"
    ELSE IF req.response.status = HTTP_401_UNAUTHORIZED THEN "unauthorized"
    ELSE IF req.response.status = HTTP_403_FORBIDDEN THEN "forbidden"
    ELSE IF req.response.status = HTTP_500_INTERNAL_SERVER_ERROR THEN "internal-error"
    ELSE "none"

\* The request itself: what came in with it.
RequestInputs ==
    <<req.method, req.path, req.user_id_header, req.user_role_header>>

\* C16: every request the middleware processes eventually reaches exactly one
\* outcome among allowed, unauthorized, forbidden and internal-error; once it is
\* decided the outcome never changes for that request, the request is never
\* resolved again or retried, and the handler is invoked at most once for it.
C16_TwoStateGate ==
    /\ (req.pc = "received") ~> Decided
    /\ [](Decided =>
             Outcome \in {"allowed", "unauthorized", "forbidden", "internal-error"})
    /\ [][ Decided =>
             \/ req' = IdleRequest
             \/ /\ Decided'
                /\ Outcome' = Outcome
                /\ RequestInputs' = RequestInputs
                /\ req'.state = req.state
                /\ req'.calls = req.calls
                /\ req'.pc # "received" ]_vars
    /\ [](req.handler_calls <= 1)

C16_Witness ==
    /\ req.pc = "done"
    /\ Outcome = "allowed"
    /\ req.handler_calls = 1
    /\ req.response.status = HTTP_500_INTERNAL_SERVER_ERROR
    /\ req.state = [ user_id |-> UserId1, user_role |-> STAFF ]

----------------------------------------------------------------------------
(* Several requests in auth_middleware at once.  Each runs from its entry  *)
(* to its await of call_next without yielding (get_user_info never         *)
(* suspends); the event loop interleaves the requests at those awaits.     *)

Requests == 1..NumReq

ConcSettings == { s \in Settings : s.MOCK_USER_ROLE = STAFF }

ConcRoleHeaders == {None, ADMIN, STAFF}

\* A middleware that keeps the resolved identity in one place for the whole
\* process: storing it for one request replaces it for all.
apply_run_shared_identity(rs, i, r) ==
    [ j \in DOMAIN rs |->
        IF j = i
        THEN [ rs[j] EXCEPT !.pc = r.pc, !.state = r.state,
                            !.response = r.response, !.calls = r.calls,
                            !.handler_calls =
                                @ + (IF r.pc = "call_next" THEN 1 ELSE 0) ]
        ELSE [ rs[j] EXCEPT !.state = r.state ] ]

\* What auth_middleware leaves on request i: request.state, the response and
\* the hand-over to call_next are the request's own.
apply_run(rs, i, r) ==
    [ rs EXCEPT ![i] = [ @ EXCEPT !.pc = r.pc, !.state = r.state,
                                  !.response = r.response, !.calls = r.calls,
                                  !.handler_calls =
                                      @ + (IF r.pc = "call_next" THEN 1 ELSE 0) ] ]

conc_receive(i) ==
    /\ reqs[i].pc = "idle"
    /\ \E m \in FewMethods, p \in FewPaths,
          uid \in FewUserIdHeaders, role \in ConcRoleHeaders :
          reqs' = [ reqs EXCEPT ![i] =
                      [ IdleRequest EXCEPT !.pc = "received", !.method = m, !.path = p,
                                           !.user_id_header = uid,
                                           !.user_role_header = role ] ]
    /\ UNCHANGED <<settings, rbac_config, req, args, ret, db, sample>>

conc_auth_middleware(i) ==
    /\ reqs[i].pc = "received"
    /\ reqs' = apply_run(reqs, i, auth_middleware_run(settings, reqs[i]))
    /\ UNCHANGED <<settings, rbac_config, req, args, ret, db, sample>>

conc_call_next_returns(i) ==
    /\ reqs[i].pc = "call_next"
    /\ LET response == [ status |-> 200, body |-> HandlerDetail ]
       IN  reqs' = [ reqs EXCEPT ![i] =
                       [ @ EXCEPT !.pc = "done",
                                  !.handler_response = response,
                                  !.response = return_response(response) ] ]
    /\ UNCHANGED <<settings, rbac_config, req, args, ret, db, sample>>

conc_call_next_raises(i) ==
    /\ reqs[i].pc = "call_next"
    /\ LET caught == except_clauses(Exception)
       IN  reqs' = [ reqs EXCEPT ![i] =
                       [ @ EXCEPT !.pc = caught.pc, !.response = caught.response,
                                  !.handler_raised = Exception ] ]
    /\ UNCHANGED <<settings, rbac_config, req, args, ret, db, sample>>

InitConc ==
    /\ settings \in ConcSettings
    /\ rbac_config = RBACConfig
    /\ req = IdleRequest
    /\ reqs = [ i \in Requests |-> IdleRequest ]
    /\ args = NoArgs
    /\ ret = NoRet
    /\ db = NoRows
    /\ sample = NoSample

NextConc ==
    \E i \in Requests :
        \/ conc_receive(i)
        \/ conc_auth_middleware(i)
        \/ conc_call_next_returns(i)
        \/ conc_call_next_raises(i)

SpecConc == InitConc /\ [][NextConc]_vars

\* The gate has decided about request i.
DecidedAt(i) == reqs[i].pc \in {"call_next", "done"}

SameInputs(a, b) ==
    /\ a.method = b.method
    /\ a.path = b.path
    /\ a.user_id_header = b.user_id_header
    /\ a.user_role_header = b.user_role_header

\* Request i as it came in, alone in the middleware.
Alone(i) ==
    auth_middleware_run(settings,
        [ IdleRequest EXCEPT !.pc = "received",
                             !.method = reqs[i].method, !.path = reqs[i].path,
                             !.user_id_header = reqs[i].user_id_header,
                             !.user_role_header = reqs[i].user_role_header ])

\* C17: under any interleaving of requests served at once, a request's
\* resolved identity and decision are what it gets when processed alone, a
\* function of its own method, path and headers, the settings and the rule
\* table; two requests with the same inputs get the same outcome, and no
\* request's processing changes what another has got.
C17_RequestsIndependent ==
    \A i \in Requests :
        DecidedAt(i) =>
            /\ reqs[i].state = Alone(i).state
            /\ reqs[i].calls = Alone(i).calls
            /\ "call_next" \notin reqs[i].calls => reqs[i].response = Alone(i).response
            /\ reqs[i].handler_calls = (IF "call_next" \in reqs[i].calls THEN 1 ELSE 0)
            /\ \A j \in Requests :
                  (DecidedAt(j) /\ SameInputs(reqs[i], reqs[j])) =>
                      /\ reqs[j].state = reqs[i].state
                      /\ reqs[j].calls = reqs[i].calls

C17_Witness ==
    /\ settings.AUTH_ENABLED
    /\ reqs[1].pc = "call_next"
    /\ reqs[1].state = [ user_id |-> UserId1, user_role |-> ADMIN ]
    /\ reqs[1].method = "DELETE"
    /\ reqs[2].pc = "done"
    /\ reqs[2].method = "DELETE"
    /\ reqs[2].path = reqs[1].path
    /\ reqs[2].state = [ user_id |-> UserId1, user_role |-> STAFF ]
    /\ reqs[2].response.status = HTTP_403_FORBIDDEN

----------------------------------------------------------------------------
(* The identity on request.state.                                          *)

\* get_user_info has run for the request in the middleware.
ResolverRan == Processed /\ "get_user_info" \in req.calls

\* What the resolver returns for the request, spelled out from its inputs.
ResolverIdentity ==
    IF settings.AUTH_ENABLED
    THEN [ user_id |-> req.user_id_header, user_role |-> Lower(req.user_role_header) ]
    ELSE [ user_id |-> MOCK_USER_ID_DEFAULT, user_role |-> settings.MOCK_USER_ROLE ]

\* C18: when identity resolution succeeds, request.state holds exactly the
\* (user id, role) the resolver returned, and it holds it already when the
\* policy check answers 403 and when the handler is awaited; when resolution
\* fails (401) nothing is stored on request.state.
C18_StateIsResolvedIdentity ==
    ResolverRan =>
        LET u == get_user_info(settings, req)
        IN  /\ u.ok =>
                /\ req.state = [ user_id |-> u.user_id, user_role |-> u.user_role ]
                /\ req.state = ResolverIdentity
                /\ "check_access" \in req.calls
                /\ req.pc = "done" /\ ~Dispatched =>
                       req.response.status = HTTP_403_FORBIDDEN
            /\ ~u.ok =>
                /\ req.state = NoState
                /\ req.calls = {"get_user_info"}
                /\ req.pc = "done"
                /\ req.response = JSONResponse(HTTP_401_UNAUTHORIZED, MissingDetail)

C18_Witness ==
    /\ settings.AUTH_ENABLED
    /\ req.pc = "done"
    /\ req.response.status = HTTP_403_FORBIDDEN
    /\ req.user_role_header = RoleStaffUpper
    /\ req.state = [ user_id |-> UserId1, user_role |-> STAFF ]
    /\ req.handler_calls = 0

----------------------------------------------------------------------------
(* is_endpoint_restricted over rule tables that carry a "*" method key,    *)
(* the key __init__ uses for admin_endpoints and leader_endpoints.         *)

\* An RBACConfig whose staff_restricted_endpoints is the given dict.
RBACConfigWith(table) == [ RBACConfig EXCEPT !.staff_restricted_endpoints = table ]

\* {"*": ["*"]}, as written for admin_endpoints.
StarTable == [ c \in {"*"} |-> <<Star>> ]

\* The table of __init__ with a "*" entry added.
StarDomainsTable ==
    [ c \in {"DELETE", "POST", "PUT", "*"} |->
        IF c = "*" THEN <<DomainsSlashStar>>
        ELSE RBACConfig.staff_restricted_endpoints[c] ]

RuleTables ==
    { RBACConfig.staff_restricted_endpoints, StarTable, StarDomainsTable }

InitTable ==
    /\ settings = [ AUTH_ENABLED |-> TRUE, MOCK_USER_ID |-> MOCK_USER_ID_DEFAULT,
                    MOCK_USER_ROLE |-> ADMIN ]
    /\ rbac_config \in { RBACConfigWith(t) : t \in RuleTables }
    /\ req = IdleRequest
    /\ reqs = <<>>
    /\ args \in EvalArgs
    /\ ret = NoRet
    /\ db = NoRows
    /\ sample = NoSample

NextTable == call_is_endpoint_restricted

SpecTable == InitTable /\ [][NextTable]_vars

----------------------------------------------------------------------------
(* What a request leaves behind.                                           *)

\* The middleware answers the request itself with 401, 403 or 500.
Answers(status) ==
    /\ req.pc \in {"received", "call_next"}
    /\ req'.pc = "done"
    /\ req'.response = JSONResponse(status, req'.response.body)
    /\ req'.handler_response = NoResponse

\* C20: processing a request through the middleware, whether it is resolved,
\* evaluated, dispatched or answered with 401, 403 or 500, leaves the
\* Settings object and the forbidden-path rule table as they were; a 403
\* changes nothing but the request it answers.
C20_SharedStateUnchanged ==
    /\ [][ settings' = settings /\ rbac_config' = rbac_config ]_vars
    /\ [][ ( \/ Answers(HTTP_401_UNAUTHORIZED)
             \/ Answers(HTTP_403_FORBIDDEN)
             \/ Answers(HTTP_500_INTERNAL_SERVER_ERROR) )
             => UNCHANGED <<settings, rbac_config, reqs, args, ret, db, sample>> ]_vars
    /\ [](rbac_config = RBACConfig /\ settings \in Settings)

C20_Witness ==
    /\ settings = [ AUTH_ENABLED |-> TRUE, MOCK_USER_ID |-> MOCK_USER_ID_DEFAULT,
                    MOCK_USER_ROLE |-> ADMIN ]
    /\ rbac_config = RBACConfig
    /\ req.pc = "done"
    /\ req.method = "DELETE"
    /\ req.path = PathRoot
    /\ req.user_role_header = STAFF
    /\ req.response.status = HTTP_403_FORBIDDEN
    /\ req.calls = {"get_user_info", "check_access", "is_endpoint_restricted",
                    "staff_restricted_endpoints"}

----------------------------------------------------------------------------
(* The default rule table, spelled out.                                    *)

\* C24: under the table of RBACConfig.__init__, is_endpoint_restricted is
\* True exactly when the lower-cased role is project-staff and either the
\* method is the upper-case string DELETE, or the method is POST or PUT and
\* the path is the empty string; for every other role, method or path it is
\* False.
C24_DefaultTableSpelledOut ==
    (Evaluated /\ rbac_config = RBACConfig) =>
        ( ret.value <=>
            /\ Lower(args.role) = STAFF
            /\ \/ args.method = "DELETE"
               \/ args.method \in {"POST", "PUT"} /\ args.path = Empty )

C24_Witness ==
    /\ Evaluated
    /\ rbac_config = RBACConfig
    /\ args.role = RoleStaffUpper
    /\ args.method = "PUT"
    /\ args.path = Empty
    /\ ret.value

----------------------------------------------------------------------------
(* Empty identity headers.                                                 *)

\* The request as it would be with its empty identity headers not sent.
WithoutEmptyHeaders(request) ==
    [ request EXCEPT
        !.user_id_header = IF @ = Empty THEN None ELSE @,
        !.user_role_header = IF @ = Empty THEN None ELSE @ ]

\* C25: with auth enabled, an x-user-id or x-user-role header that is sent
\* with an empty value counts as missing: the resolver fails with 401, no
\* identity is produced, and the request fares as it would without the header.
C25_EmptyHeaderIsMissing ==
    ( /\ settings.AUTH_ENABLED
      /\ ResolverRan
      /\ req.user_id_header = Empty \/ req.user_role_header = Empty )
        => /\ req.pc = "done"
           /\ req.response = JSONResponse(HTTP_401_UNAUTHORIZED, MissingDetail)
           /\ req.state = NoState
           /\ ~Dispatched
           /\ LET alone == auth_middleware_run(settings, WithoutEmptyHeaders(req))
              IN  req.response = alone.response /\ req.state = alone.state

C25_Witness ==
    /\ settings.AUTH_ENABLED
    /\ req.pc = "done"
    /\ req.user_id_header = UserId1
    /\ req.user_role_header = Empty
    /\ req.method = "GET"
    /\ req.response.status = HTTP_401_UNAUTHORIZED

----------------------------------------------------------------------------
(* Faults of the wrapped handler.                                          *)

\* call_next has raised for the request.
HandlerRaised == req.handler_raised # NoException

\* C26: an exception the wrapped handler raises inside call_next, for a
\* request the policy allowed or a bypass request alike, never leaves
\* auth_middleware: an HTTPException is answered with a JSON response of that
\* exception's status code and detail, any other exception with 500 and the
\* generic body.
C26_HandlerFaultCaught ==
    /\ req.pc # "raised"
    /\ HandlerRaised =>
           /\ req.pc = "done"
           /\ Dispatched
           /\ req.handler_calls = 1
           /\ req.handler_raised.type = "HTTPException" =>
                  req.response =
                      [ status |-> req.handler_raised.status,
                        body   |-> req.handler_raised.detail ]
           /\ req.handler_raised.type # "HTTPException" =>
                  req.response =
                      [ status |-> 500,
                        body   |-> [ NoDetail EXCEPT !.msg = "Internal server error" ] ]

C26_Witness ==
    /\ req.pc = "done"
    /\ req.path = PathDocs
    /\ req.calls = {"call_next"}
    /\ req.handler_raised = HTTPException(422, HandlerErrorDetail)
    /\ req.response.status = 422

----------------------------------------------------------------------------
(* TemplateRequest (api/src/MultiAgent/shared/schemas.py): the model is     *)
(* built from keyword arguments; pydantic validates the fields in the       *)
(* order they are declared and raises one ValidationError, a ValueError,    *)
(* when any of them fails.                                                  *)

\* class OrchestrationTemplate(str, Enum)
RAG_SEARCH == [ name |-> "RAG_SEARCH", value |-> "rag_search" ]

DATA_ANALYSIS == [ name |-> "DATA_ANALYSIS", value |-> "data_analysis" ]

RAG_THEN_ANALYSIS == [ name |-> "RAG_THEN_ANALYSIS", value |-> "rag_then_analysis" ]

PARALLEL_RAG_ANALYSIS ==
    [ name |-> "PARALLEL_RAG_ANALYSIS", value |-> "parallel_rag_analysis" ]

CUSTOM == [ name |-> "CUSTOM", value |-> "custom" ]

OrchestrationTemplate ==
    { RAG_SEARCH, DATA_ANALYSIS, RAG_THEN_ANALYSIS, PARALLEL_RAG_ANALYSIS, CUSTOM }

\* No enum member: what info.data.get('template') gives when the template
\* field did not validate.
NoMember == [ name |-> "None", value |-> "" ]

\* A keyword argument that is not passed, one that is a dict, one that is of
\* another type.
Missing == [ kind |-> "missing", items |-> <<>>, str |-> "" ]

Dict(items) == [ kind |-> "dict", items |-> items, str |-> "" ]

Str(str) == [ kind |-> "str", items |-> <<>>, str |-> str ]

TemplateInputs ==
    { Missing, Dict(<<>>) }
        \cup { Str(m.value) : m \in OrchestrationTemplate }
        \cup { Str("RAG_SEARCH"), Str("") }

ParameterKeys == {"query", "data", "limit"}

ParameterValues == {"What is AI?", ""}

ParameterInputs ==
    { Missing, Str("query") }
        \cup { Dict([ k \in keys |-> v ]) :
                  keys \in SUBSET ParameterKeys, v \in ParameterValues }

ExecutionOptionInputs == { Missing, Dict(<<>>), Str("fast") }

TemplateArgs ==
    { [ fn |-> "TemplateRequest", template |-> t, parameters |-> p,
        execution_options |-> e ] :
          t \in TemplateInputs, p \in ParameterInputs, e \in ExecutionOptionInputs }

\* template: OrchestrationTemplate -- the member whose value the string is.
parse_template(t) ==
    IF t.kind = "str" /\ \E m \in OrchestrationTemplate : m.value = t.str
    THEN [ ok |-> TRUE, member |-> CHOOSE m \in OrchestrationTemplate : m.value = t.str ]
    ELSE [ ok |-> FALSE, member |-> NoMember ]

\* A validator that asks for a non-empty value under the required key.
validate_template_parameters_truthy(v, template) ==
    IF template = RAG_SEARCH
    THEN IF "query" \notin DOMAIN v \/ v["query"] = ""
         THEN [ ok |-> FALSE, error |-> "RAG_SEARCH template requires \"query\" parameter" ]
         ELSE [ ok |-> TRUE, error |-> "" ]
    ELSE IF template = DATA_ANALYSIS
    THEN IF "data" \notin DOMAIN v \/ v["data"] = ""
         THEN [ ok |-> FALSE, error |-> "DATA_ANALYSIS template requires \"data\" parameter" ]
         ELSE [ ok |-> TRUE, error |-> "" ]
    ELSE IF template = RAG_THEN_ANALYSIS
    THEN IF "query" \notin DOMAIN v \/ v["query"] = ""
         THEN [ ok |-> FALSE,
                error |-> "RAG_THEN_ANALYSIS template requires \"query\" parameter" ]
         ELSE [ ok |-> TRUE, error |-> "" ]
    ELSE [ ok |-> TRUE, error |-> "" ]

\* TemplateRequest.validate_template_parameters(cls, v, info), template being
\* info.data.get('template'), NoMember when the template did not validate.
validate_template_parameters(v, template) ==
    IF template = RAG_SEARCH
    THEN IF "query" \notin DOMAIN v
         THEN [ ok |-> FALSE, error |-> "RAG_SEARCH template requires \"query\" parameter" ]
         ELSE [ ok |-> TRUE, error |-> "" ]
    ELSE IF template = DATA_ANALYSIS
    THEN IF "data" \notin DOMAIN v
         THEN [ ok |-> FALSE, error |-> "DATA_ANALYSIS template requires \"data\" parameter" ]
         ELSE [ ok |-> TRUE, error |-> "" ]
    ELSE IF template = RAG_THEN_ANALYSIS
    THEN IF "query" \notin DOMAIN v
         THEN [ ok |-> FALSE,
                error |-> "RAG_THEN_ANALYSIS template requires \"query\" parameter" ]
         ELSE [ ok |-> TRUE, error |-> "" ]
    ELSE [ ok |-> TRUE, error |-> "" ]

\* TemplateRequest(template=..., parameters=..., execution_options=...): the
\* errors of the three fields, and the instance when there are none.
TemplateRequest(a) ==
    LET t    == parse_template(a.template)
        p    == IF a.parameters.kind # "dict"
                THEN [ ok |-> FALSE,
                       error |-> IF a.parameters.kind = "missing"
                                 THEN "Field required"
                                 ELSE "Input should be a valid dictionary" ]
                ELSE validate_template_parameters(a.parameters.items, t.member)
        e_ok == a.execution_options.kind \in {"missing", "dict"}
        errors ==
            (IF t.ok THEN {} ELSE {"template"})
                \cup (IF p.ok THEN {} ELSE {"parameters"})
                \cup (IF e_ok THEN {} ELSE {"execution_options"})
    IN  IF errors = {}
        THEN [ done |-> TRUE, raised |-> "", errors |-> {}, message |-> "",
               value |-> [ template |-> t.member,
                           parameters |-> a.parameters.items,
                           execution_options |->
                               IF a.execution_options.kind = "missing"
                               THEN <<>> ELSE a.execution_options.items ] ]
        ELSE [ done |-> TRUE, raised |-> "ValidationError", errors |-> errors,
               message |-> p.error,
               value |-> [ template |-> NoMember, parameters |-> <<>>,
                           execution_options |-> <<>> ] ]

InitSchemas ==
    /\ settings = [ AUTH_ENABLED |-> FALSE, MOCK_USER_ID |-> MOCK_USER_ID_DEFAULT,
                    MOCK_USER_ROLE |-> ADMIN ]
    /\ rbac_config = RBACConfig
    /\ req = IdleRequest
    /\ reqs = <<>>
    /\ args \in TemplateArgs
    /\ ret = NoRet
    /\ db = NoRows
    /\ sample = NoSample

call_TemplateRequest ==
    /\ args.fn = "TemplateRequest"
    /\ ~ret.done
    /\ ret' = TemplateRequest(args)
    /\ UNCHANGED <<settings, rbac_config, req, reqs, args, db, sample>>

NextSchemas == call_TemplateRequest

SpecSchemas == InitSchemas /\ [][NextSchemas]_vars

\* The key the template named by the string requires, "" when it requires none.
RequiredKey(template) ==
    IF template \in {"rag_search", "rag_then_analysis"} THEN "query"
    ELSE IF template = "data_analysis" THEN "data"
    ELSE ""

Validated == args.fn = "TemplateRequest" /\ ret.done

Accepted == Validated /\ ret.raised = ""

\* The request names the template by one of the three values that require a
\* key and passes a dict as parameters.
RequiresKey ==
    /\ args.template.kind = "str"
    /\ RequiredKey(args.template.str) # ""
    /\ args.parameters.kind = "dict"

\* C23: TemplateRequest accepts a request of template rag_search or
\* rag_then_analysis only if its parameters have the key "query", and one of
\* data_analysis only if they have the key "data"; without the key the
\* request is rejected with a validation error about the parameters, and
\* with it (the other fields being valid) it is accepted, template being the
\* enum member of that value.
C23_TemplateParameters ==
    (Validated /\ RequiresKey) =>
        LET key == RequiredKey(args.template.str)
        IN  /\ Accepted => key \in DOMAIN args.parameters.items
            /\ key \notin DOMAIN args.parameters.items =>
                   /\ ret.raised = "ValidationError"
                   /\ "parameters" \in ret.errors
                   /\ ret.message # ""
            /\ ( /\ key \in DOMAIN args.parameters.items
                 /\ args.execution_options.kind # "str" ) =>
                   /\ Accepted
                   /\ ret.value.template \in OrchestrationTemplate
                   /\ ret.value.template.value = args.template.str
                   /\ ret.value.parameters = args.parameters.items

C23_Witness ==
    /\ Validated
    /\ args.template = Str("rag_then_analysis")
    /\ args.parameters = Dict([ k \in {"query", "limit"} |-> "" ])
    /\ ret.raised = ""
    /\ ret.value.template = RAG_THEN_ANALYSIS

----------------------------------------------------------------------------
(* LLMConfig (api/src/MultiAgent/shared/llm_config.py) and the chat route   *)
(* that uses it (api/src/MultiAgent/test_routes.py).                        *)

\* settings.LITELLM_TEMPERATURE = 0.7, counted in tenths.
LITELLM_TEMPERATURE == 7

LITELLM_MAX_TOKENS == 4000

\* The keyword arguments complete writes out in its call of acompletion.
CompleteKeywords ==
    { "model", "messages", "api_base", "api_key", "custom_llm_provider",
      "temperature", "max_tokens", "metadata" }

\* The keyword arguments complete_sync writes out in its call of completion.
CompleteSyncKeywords ==
    { "model", "messages", "api_base", "api_key",
      "temperature", "max_tokens", "metadata" }

\* What the caller passes as **kwargs: temperatures in tenths, token limits,
\* and top_p as a keyword the wrapper does not name itself.
KwargKeys == {"temperature", "max_tokens", "top_p"}

KwargValues ==
    [ temperature |-> {0, 2}, max_tokens |-> {256, 4000}, top_p |-> {1, 9} ]

Kwargs ==
    UNION { [ keys -> UNION { KwargValues[k] : k \in keys } ] :
                keys \in SUBSET KwargKeys }

WellTypedKwargs == { kw \in Kwargs : \A k \in DOMAIN kw : kw[k] \in KwargValues[k] }

\* What the LiteLLM call itself does once it is issued.
LLMOutcomes == {"response", "APIConnectionError", "empty content"}

NoCall == [ issued |-> FALSE, temperature |-> -1, max_tokens |-> -1, extra |-> <<>> ]

NoError == [ type |-> "", str |-> "" ]

\* kwargs.get(key, default)
kwargs_get(kwargs, key, default) ==
    IF key \in DOMAIN kwargs THEN kwargs[key] ELSE default

\* f(name=value, ..., **kwargs): Python raises TypeError before f runs when a
\* key of kwargs repeats a keyword that is written out.
repeated_keywords(written, kwargs) == written \cap DOMAIN kwargs

\* LLMConfig.complete / complete_sync: the call it issues, what it returns or
\* raises (the except clause prints and re-raises).
complete_run(written, kwargs, outcome) ==
    IF repeated_keywords(written, kwargs) # {}
    THEN [ call |-> NoCall,
           raised |-> [ type |-> "TypeError",
                        str  |-> "got multiple values for keyword argument" ],
           content |-> "" ]
    ELSE LET call == [ issued |-> TRUE,
                       temperature |-> kwargs_get(kwargs, "temperature", LITELLM_TEMPERATURE),
                       max_tokens  |-> kwargs_get(kwargs, "max_tokens", LITELLM_MAX_TOKENS),
                       extra |-> kwargs ]
         IN  IF outcome = "APIConnectionError"
             THEN [ call |-> call,
                    raised |-> [ type |-> "APIConnectionError", str |-> "Connection error." ],
                    content |-> "" ]
             ELSE [ call |-> call, raised |-> NoError,
                    content |-> IF outcome = "response" THEN "Hello" ELSE "None" ]

complete(kwargs, outcome) == complete_run(CompleteKeywords, kwargs, outcome)

complete_sync(kwargs, outcome) == complete_run(CompleteSyncKeywords, kwargs, outcome)

\* The names test_routes.py binds at module level: its imports, its router
\* and its classes.
ModuleNames ==
    { "APIRouter", "HTTPException", "BaseModel", "Optional", "llm_config",
      "trace_llm_call", "update_current_trace", "flush_observations",
      "uuid", "logging", "router", "ChatRequest", "ChatResponse" }

\* The except clause of test_chat: two logging.error calls, the second of
\* which looks up the name traceback, then raise HTTPException(500, str(e)).
test_chat_except(e) ==
    IF "traceback" \notin ModuleNames
    THEN [ type |-> "NameError", status |-> 0,
           detail |-> "name 'traceback' is not defined" ]
    ELSE HTTPException(500, e.str)

\* test_chat(request): what it returns or raises.
test_chat(request, outcome) ==
    LET user_id    == IF request.user_id = "None" THEN "test_user_" ELSE request.user_id
        session_id == IF request.session_id = "None"
                      THEN "test_session_" ELSE request.session_id
        response   == complete(<<>>, outcome)
    IN  IF response.raised # NoError
        THEN [ raised |-> test_chat_except(response.raised), error |-> response.raised,
               call |-> response.call, value |-> "" ]
        ELSE IF response.content = "None"
        THEN LET e == [ type |-> "ValidationError",
                        str  |-> "Input should be a valid string" ]
             IN  [ raised |-> test_chat_except(e), error |-> e,
                   call |-> response.call, value |-> "" ]
        ELSE [ raised |-> NoException, error |-> NoError, call |-> response.call,
               value |-> response.content ]

ChatRequests ==
    { [ message |-> "hi", user_id |-> u, session_id |-> sid ] :
          u \in {"None", "u1"}, sid \in {"None", "s1"} }

LLMArgs ==
    { [ fn |-> f, kwargs |-> kw, outcome |-> o, request |-> [ message |-> "" ] ] :
          f \in {"complete", "complete_sync"}, kw \in WellTypedKwargs, o \in LLMOutcomes }
    \cup
    { [ fn |-> "test_chat", kwargs |-> <<>>, outcome |-> o, request |-> r ] :
          r \in ChatRequests, o \in LLMOutcomes }

InitLLM ==
    /\ settings = [ AUTH_ENABLED |-> FALSE, MOCK_USER_ID |-> MOCK_USER_ID_DEFAULT,
                    MOCK_USER_ROLE |-> ADMIN ]
    /\ rbac_config = RBACConfig
    /\ req = IdleRequest
    /\ reqs = <<>>
    /\ args \in LLMArgs
    /\ ret = NoRet
    /\ db = NoRows
    /\ sample = NoSample

call_complete ==
    /\ args.fn = "complete"
    /\ ~ret.done
    /\ LET r == complete(args.kwargs, args.outcome)
       IN  ret' = [ done |-> TRUE, call |-> r.call, raised |-> r.raised,
                    value |-> r.content ]
    /\ UNCHANGED <<settings, rbac_config, req, reqs, args, db, sample>>

call_complete_sync ==
    /\ args.fn = "complete_sync"
    /\ ~ret.done
    /\ LET r == complete_sync(args.kwargs, args.outcome)
       IN  ret' = [ done |-> TRUE, call |-> r.call, raised |-> r.raised,
                    value |-> r.content ]
    /\ UNCHANGED <<settings, rbac_config, req, reqs, args, db, sample>>

call_test_chat ==
    /\ args.fn = "test_chat"
    /\ ~ret.done
    /\ LET r == test_chat(args.request, args.outcome)
       IN  ret' = [ done |-> TRUE, call |-> r.call, raised |-> r.raised,
                    error |-> r.error, value |-> r.value ]
    /\ UNCHANGED <<settings, rbac_config, req, reqs, args, db, sample>>

NextLLM ==
    \/ call_complete
    \/ call_complete_sync
    \/ call_test_chat

SpecLLM == InitLLM /\ [][NextLLM]_vars

\* C29: when a step of the POST /test/chat handler fails, for example the
\* LLM completion raises, the handler ends by raising HTTPException with
\* status 500 and the string of the original error as its detail.
C29_ChatErrorIs500 ==
    ( /\ args.fn = "test_chat"
      /\ ret.done
      /\ ret.error # NoError )
        => /\ ret.raised.type = "HTTPException"
           /\ ret.raised.status = 500
           /\ ret.raised.detail = ret.error.str

\* C30: complete and complete_sync issue the completion call with the
\* temperature and max_tokens the caller passed as keyword arguments, and
\* with the configured defaults for those not passed; passing one does not
\* make the call fail.
C30_OverrideApplied ==
    ( /\ args.fn \in {"complete", "complete_sync"}
      /\ ret.done )
        => /\ ret.call.issued
           /\ ret.raised.type # "TypeError"
           /\ ret.call.temperature =
                  (IF "temperature" \in DOMAIN args.kwargs
                   THEN args.kwargs["temperature"] ELSE 7)
           /\ ret.call.max_tokens =
                  (IF "max_tokens" \in DOMAIN args.kwargs
                   THEN args.kwargs["max_tokens"] ELSE 4000)

----------------------------------------------------------------------------
(* The application behind the middleware (api/main.py) with one database.  *)
(* The routes /health and / are those of main.py.  The domain routes of    *)
(* the keywords router are not among the source files (main.py has its     *)
(* include_router commented out); they are modelled from the specification *)
(* and from tests/test_keywords/test_domain_crud.py, under the paths the   *)
(* tests call.                                                             *)

\* Domain rows the database holds at most.
MaxRows == 2

PathHealth == <<"/", "h", "e", "a", "l", "t", "h">>

PathKeywordDomains == <<"/", "k", "e", "y", "w", "o", "r", "d", "s", "/", "d", "o", "m", "a", "i", "n", "s", "/">>

Digits == <<"1", "2", "3", "4", "5", "6", "7", "8", "9">>

\* /keywords/domains/{domain.id}
DomainPath(id) == PathKeywordDomains \o <<Digits[id]>>

DomainIds == 1..MaxRows

\* Domain(id=uuid.uuid4(), name=...) as the tests add it to the session.
TestDomain == [ id |-> 1, created_by |-> None, updated_by |-> None ]

AppPaths ==
    {PathHealth, PathRoot, PathKeywordDomains, PathDocs}
        \cup { DomainPath(id) : id \in DomainIds }

AppMethods == {"GET", "POST", "PATCH", "DELETE"}

AppRoleHeaders == {None, STAFF}

Body(msg) == [ NoDetail EXCEPT !.msg = msg ]

\* The row with the given id, if the database has one.
rows_with(rows, id) == { row \in rows : row.id = id }

\* A new id for a row (uuid.uuid4()).
new_id(rows) == CHOOSE id \in DomainIds : rows_with(rows, id) = {}

\* The domain routes of the keywords router: create (201), read (200),
\* update (200) and delete (204) of a Domain, 404 for an id the database
\* does not have; created_by and updated_by are taken from request.state.
keywords_router(request, rows) ==
    IF request.path = PathKeywordDomains
    THEN IF request.method = "POST"
         THEN [ response |-> [ status |-> 201, body |-> Body("domain") ],
                rows |-> rows \cup { [ id |-> new_id(rows),
                                       created_by |-> request.state.user_id,
                                       updated_by |-> None ] } ]
         ELSE IF request.method = "GET"
         THEN [ response |-> [ status |-> 200, body |-> Body("domains") ], rows |-> rows ]
         ELSE [ response |-> [ status |-> 405, body |-> Body("Method Not Allowed") ],
                rows |-> rows ]
    ELSE LET id == CHOOSE i \in DomainIds : request.path = DomainPath(i)
         IN  IF request.method = "POST"
             THEN [ response |-> [ status |-> 405, body |-> Body("Method Not Allowed") ],
                    rows |-> rows ]
             ELSE IF rows_with(rows, id) = {}
             THEN [ response |-> [ status |-> 404, body |-> Body("Not Found") ],
                    rows |-> rows ]
             ELSE IF request.method = "GET"
             THEN [ response |-> [ status |-> 200, body |-> Body("domain") ], rows |-> rows ]
             ELSE IF request.method = "PATCH"
             THEN [ response |-> [ status |-> 200, body |-> Body("domain") ],
                    rows |-> { IF row.id = id
                               THEN [ row EXCEPT !.updated_by = request.state.user_id ]
                               ELSE row : row \in rows } ]
             ELSE [ response |-> [ status |-> 204, body |-> Body("") ],
                    rows |-> rows \ rows_with(rows, id) ]

\* The application call_next hands the request to: the routes of main.py,
\* the domain routes, and the framework's 404 and 405 for the rest.
app(request, rows) ==
    IF request.path \in {PathHealth, PathRoot}
    THEN IF request.method = "GET"
         THEN [ response |->
                    [ status |-> 200,
                      body |-> IF request.path = PathHealth
                               THEN Body("ok") ELSE Body("Welcome to Keyword API!") ],
                rows |-> rows ]
         ELSE [ response |-> [ status |-> 405, body |-> Body("Method Not Allowed") ],
                rows |-> rows ]
    ELSE IF request.path \in {PathKeywordDomains} \cup { DomainPath(i) : i \in DomainIds }
    THEN keywords_router(request, rows)
    ELSE IF request.path = PathDocs /\ request.method = "GET"
    THEN [ response |-> [ status |-> 200, body |-> Body("Swagger UI") ], rows |-> rows ]
    ELSE [ response |-> [ status |-> 404, body |-> Body("Not Found") ], rows |-> rows ]

InitApp ==
    /\ settings \in Settings
    /\ rbac_config = RBACConfig
    /\ req = IdleRequest
    /\ reqs = <<>>
    /\ args = NoArgs
    /\ ret = NoRet
    /\ db \in { NoRows, {TestDomain} }
    /\ sample = NoSample

\* The test client sends a request; a create is sent only while the database
\* has room for another row.
ReceiveApp ==
    /\ req.pc = "idle"
    /\ \E m \in AppMethods, p \in AppPaths,
          uid \in FewUserIdHeaders, role \in AppRoleHeaders :
          /\ (m = "POST" /\ p = PathKeywordDomains) => Cardinality(db) < MaxRows
          /\ req' = [ IdleRequest EXCEPT !.pc = "received", !.method = m, !.path = p,
                                         !.user_id_header = uid,
                                         !.user_role_header = role ]
    /\ UNCHANGED <<settings, rbac_config, reqs, args, ret, db, sample>>

\* call_next runs the application and the middleware returns its response.
call_next_app ==
    /\ req.pc = "call_next"
    /\ LET r == app(req, db)
       IN  /\ req' = [ req EXCEPT !.pc = "done",
                                  !.handler_response = r.response,
                                  !.response = return_response(r.response) ]
           /\ db' = r.rows
    /\ UNCHANGED <<settings, rbac_config, reqs, args, ret, sample>>

NextApp ==
    \/ ReceiveApp
    \/ auth_middleware
    \/ call_next_app
    \/ Finish

SpecApp == InitApp /\ [][NextApp]_vars

\* The application answers the request that call_next handed to it.
Handled == req.pc = "call_next" /\ req'.pc = "done"

----------------------------------------------------------------------------
(* api/create_sample_data.py.  A name is the sequence of its words, so that *)
(* f"{a} {b}" is the concatenation a \o b and two keywords are the same     *)
(* string exactly when they are the same sequence of words.  The columns    *)
(* drawn with random (scan_platform, the link counts, status, favorite,     *)
(* scheduler_config) are left out: nothing reads them.                      *)

SAMPLE_DOMAINS ==
    << <<"Technology">>, <<"Health", "&", "Fitness">>,
       <<"Finance", "&", "Business">>, <<"Education">>,
       <<"Travel", "&", "Tourism">>, <<"Food", "&", "Cooking">>,
       <<"Home", "&", "Garden">>, <<"Entertainment">>, <<"Sports">>,
       <<"Fashion", "&", "Beauty">> >>

SAMPLE_NICHES ==
    <<
       [ key |-> <<"Technology">>,
         values |->
           << <<"Web", "Development">>, <<"Mobile", "Apps">>,
             <<"Artificial", "Intelligence">>, <<"Cybersecurity">>,
             <<"Cloud", "Computing">>, <<"Data", "Science">>, <<"Gaming">>,
             <<"IoT", "Devices">> >> ],
       [ key |-> <<"Health", "&", "Fitness">>,
         values |->
           << <<"Weight", "Loss">>, <<"Muscle", "Building">>,
             <<"Yoga", "&", "Meditation">>, <<"Nutrition">>,
             <<"Mental", "Health">>, <<"Cardio", "Training">>,
             <<"Supplements">>, <<"Wellness">> >> ],
       [ key |-> <<"Finance", "&", "Business">>,
         values |->
           << <<"Investing">>, <<"Entrepreneurship">>,
             <<"Personal", "Finance">>, <<"Cryptocurrency">>,
             <<"Real", "Estate">>, <<"Marketing">>, <<"E-commerce">>,
             <<"Stock", "Trading">> >> ],
       [ key |-> <<"Education">>,
         values |->
           << <<"Online", "Learning">>, <<"Language", "Learning">>,
             <<"Programming", "Courses">>, <<"Academic", "Tutoring">>,
             <<"Professional", "Development">>, <<"Homeschooling">>,
             <<"Test", "Preparation">>, <<"Skill", "Development">> >> ],
       [ key |-> <<"Travel", "&", "Tourism">>,
         values |->
           << <<"Budget", "Travel">>, <<"Luxury", "Travel">>,
             <<"Adventure", "Tourism">>, <<"Cultural", "Tourism">>,
             <<"Business", "Travel">>, <<"Family", "Vacations">>,
             <<"Solo", "Travel">>, <<"Eco", "Tourism">> >> ],
       [ key |-> <<"Food", "&", "Cooking">>,
         values |->
           << <<"Healthy", "Recipes">>, <<"Baking">>,
             <<"International", "Cuisine">>, <<"Meal", "Planning">>,
             <<"Food", "Photography">>, <<"Restaurant", "Reviews">>,
             <<"Wine", "&", "Beverages">>, <<"Food", "Delivery">> >> ],
       [ key |-> <<"Home", "&", "Garden">>,
         values |->
           << <<"Interior", "Design">>, <<"Gardening">>,
             <<"DIY", "Projects">>, <<"Home", "Improvement">>,
             <<"Furniture">>, <<"Landscaping">>, <<"Home", "Organization">>,
             <<"Smart", "Home">> >> ],
       [ key |-> <<"Entertainment">>,
         values |->
           << <<"Movies", "&", "TV", "Shows">>, <<"Music">>,
             <<"Books", "&", "Reading">>, <<"Podcasts">>,
             <<"Streaming", "Services">>, <<"Live", "Events">>,
             <<"Celebrity", "News">> >> ],
       [ key |-> <<"Sports">>,
         values |->
           << <<"Football">>, <<"Basketball">>, <<"Tennis">>, <<"Golf">>,
             <<"Running">>, <<"Fitness", "Training">>,
             <<"Olympic", "Sports">>, <<"Extreme", "Sports">> >> ],
       [ key |-> <<"Fashion", "&", "Beauty">>,
         values |->
           << <<"Fashion", "Trends">>, <<"Makeup", "Tutorials">>,
             <<"Skincare">>, <<"Hair", "Care">>, <<"Fashion", "Shopping">>,
             <<"Beauty", "Products">>, <<"Style", "Tips">>,
             <<"Sustainable", "Fashion">> >> ]
    >>

SAMPLE_SUBNICHES ==
    <<
       [ key |-> <<"Web", "Development">>,
         values |->
           << <<"Frontend">>, <<"Backend">>, <<"Full", "Stack">>,
             <<"WordPress">>, <<"E-commerce">> >> ],
       [ key |-> <<"Mobile", "Apps">>,
         values |->
           << <<"iOS", "Development">>, <<"Android", "Development">>,
             <<"Cross-platform">>, <<"App", "Marketing">>,
             <<"App", "Design">> >> ],
       [ key |-> <<"Artificial", "Intelligence">>,
         values |->
           << <<"Machine", "Learning">>, <<"Deep", "Learning">>, <<"NLP">>,
             <<"Computer", "Vision">>, <<"AI", "Ethics">> >> ],
       [ key |-> <<"Cybersecurity">>,
         values |->
           << <<"Network", "Security">>, <<"Application", "Security">>,
             <<"Penetration", "Testing">>, <<"Security", "Tools">>,
             <<"Threat", "Intelligence">> >> ],
       [ key |-> <<"Cloud", "Computing">>,
         values |->
           << <<"AWS">>, <<"Azure">>, <<"Google", "Cloud">>, <<"DevOps">>,
             <<"Serverless">> >> ],
       [ key |-> <<"Data", "Science">>,
         values |->
           << <<"Data", "Analysis">>, <<"Data", "Visualization">>,
             <<"Big", "Data">>, <<"Statistics">>,
             <<"Predictive", "Analytics">> >> ],
       [ key |-> <<"IoT", "Devices">>,
         values |->
           << <<"Smart", "Home">>, <<"Wearables">>, <<"Industrial", "IoT">>,
             <<"IoT", "Security">>, <<"IoT", "Platforms">> >> ],
       [ key |-> <<"Weight", "Loss">>,
         values |->
           << <<"Diet", "Plans">>, <<"Exercise", "Routines">>,
             <<"Supplements">>, <<"Meal", "Prep">>,
             <<"Fitness", "Tracking">> >> ],
       [ key |-> <<"Muscle", "Building">>,
         values |->
           << <<"Strength", "Training">>, <<"Bodybuilding">>, <<"Nutrition">>,
             <<"Recovery">>, <<"Supplements">> >> ],
       [ key |-> <<"Yoga", "&", "Meditation">>,
         values |->
           << <<"Hatha", "Yoga">>, <<"Vinyasa">>, <<"Meditation", "Apps">>,
             <<"Mindfulness">>, <<"Stress", "Relief">> >> ],
       [ key |-> <<"Nutrition">>,
         values |->
           << <<"Healthy", "Eating">>, <<"Meal", "Planning">>,
             <<"Superfoods">>, <<"Dietary", "Supplements">>,
             <<"Food", "Allergies">> >> ],
       [ key |-> <<"Mental", "Health">>,
         values |->
           << <<"Anxiety", "Relief">>, <<"Depression", "Support">>,
             <<"Therapy">>, <<"Self-care">>, <<"Mindfulness">> >> ],
       [ key |-> <<"Cardio", "Training">>,
         values |->
           << <<"Running">>, <<"Cycling">>, <<"Swimming">>, <<"HIIT">>,
             <<"Endurance", "Training">> >> ],
       [ key |-> <<"Supplements">>,
         values |->
           << <<"Protein">>, <<"Vitamins">>, <<"Pre-workout">>,
             <<"Post-workout">>, <<"Natural", "Supplements">> >> ],
       [ key |-> <<"Wellness">>,
         values |->
           << <<"Holistic", "Health">>, <<"Alternative", "Medicine">>,
             <<"Wellness", "Retreats">>, <<"Health", "Coaching">>,
             <<"Lifestyle", "Medicine">> >> ],
       [ key |-> <<"Investing">>,
         values |->
           << <<"Stock", "Market">>, <<"Real", "Estate">>,
             <<"Cryptocurrency">>, <<"Retirement", "Planning">>,
             <<"Portfolio", "Management">> >> ],
       [ key |-> <<"Entrepreneurship">>,
         values |->
           << <<"Startup", "Business">>, <<"Small", "Business">>,
             <<"Business", "Planning">>, <<"Funding">>, <<"Marketing">> >> ],
       [ key |-> <<"Personal", "Finance">>,
         values |->
           << <<"Budgeting">>, <<"Saving", "Money">>,
             <<"Debt", "Management">>, <<"Credit", "Cards">>,
             <<"Financial", "Planning">> >> ],
       [ key |-> <<"Cryptocurrency">>,
         values |->
           << <<"Bitcoin">>, <<"Ethereum">>, <<"Trading">>, <<"Mining">>,
             <<"DeFi">> >> ],
       [ key |-> <<"Real", "Estate">>,
         values |->
           << <<"Buying", "Homes">>, <<"Selling", "Homes">>,
             <<"Rental", "Properties">>, <<"Real", "Estate", "Investment">>,
             <<"Property", "Management">> >> ],
       [ key |-> <<"Marketing">>,
         values |->
           << <<"Digital", "Marketing">>, <<"Social", "Media", "Marketing">>,
             <<"Content", "Marketing">>, <<"SEO">>, <<"Email", "Marketing">> >> ],
       [ key |-> <<"E-commerce">>,
         values |->
           << <<"Online", "Stores">>, <<"Dropshipping">>, <<"Amazon", "FBA">>,
             <<"Shopify">>, <<"E-commerce", "Marketing">> >> ],
       [ key |-> <<"Stock", "Trading">>,
         values |->
           << <<"Day", "Trading">>, <<"Swing", "Trading">>,
             <<"Options", "Trading">>, <<"Technical", "Analysis">>,
             <<"Trading", "Platforms">> >> ]
    >>

SAMPLE_PREFIXES ==
    << "best", "top", "ultimate", "complete", "essential", "advanced",
       "beginner", "professional", "affordable", "premium", "free", "cheap",
       "expensive", "quality", "reliable", "trusted", "popular", "trending",
       "viral", "famous", "expert", "certified", "licensed", "accredited",
       "modern", "traditional", "innovative", "classic", "contemporary",
       "vintage", "luxury", "budget" >>

SAMPLE_SUFFIXES ==
    << "guide", "tutorial", "tips", "tricks", "strategies", "methods",
       "techniques", "approaches", "reviews", "comparison", "vs",
       "alternatives", "options", "solutions", "tools", "software",
       "courses", "training", "certification", "program", "plan", "system",
       "framework", "platform", "services", "providers", "companies",
       "brands", "products", "apps", "websites", "resources" >>

\* subniche_name = None
NoName == <<>>

\* sub_niche_id = None
NoId == 0

\* list[:n]
First(list, n) == SubSeq(list, 1, IF Len(list) < n THEN Len(list) ELSE n)

\* The (key, value) pairs of a dict of lists, in the order a nested for loop
\* over .items() visits them.
RECURSIVE items_from(_, _)
items_from(table, k) ==
    IF k > Len(table) THEN <<>>
    ELSE [ j \in 1..Len(table[k].values) |-> <<table[k].key, table[k].values[j]>> ]
             \o items_from(table, k + 1)

\* SAMPLE_SUBNICHES.get(niche_name, [])
subniches_get(niche_name) ==
    IF \E k \in 1..Len(SAMPLE_SUBNICHES) : SAMPLE_SUBNICHES[k].key = niche_name
    THEN SAMPLE_SUBNICHES[CHOOSE k \in 1..Len(SAMPLE_SUBNICHES) :
                              SAMPLE_SUBNICHES[k].key = niche_name].values
    ELSE <<>>

\* The calls of generate_sample_keywords the keyword loop comes to, in order:
\* one per subniche of a niche that has subniches, one for a niche without.
RECURSIVE keyword_calls_from(_, _)
keyword_calls_from(niche_items, k) ==
    IF k > Len(niche_items) THEN <<>>
    ELSE LET domain_name     == niche_items[k][1]
             niche_name      == niche_items[k][2]
             niche_subniches == subniches_get(niche_name)
         IN  (IF niche_subniches # <<>>
              THEN [ j \in 1..Len(niche_subniches) |->
                       <<domain_name, niche_name, niche_subniches[j]>> ]
              ELSE << <<domain_name, niche_name, NoName>> >>)
                 \o keyword_calls_from(niche_items, k + 1)

NicheItems == items_from(SAMPLE_NICHES, 1)

SubnicheItems == items_from(SAMPLE_SUBNICHES, 1)

KeywordCalls == keyword_calls_from(NicheItems, 1)

\* The keywords generate_sample_keywords goes through, before it skips the
\* ones it has used: prefix x combination x suffix, then the plain terms.
keyword_candidates(domain_name, niche_name, subniche_name) ==
    LET base_combinations ==
            << <<domain_name, niche_name>>, <<niche_name, domain_name>> >>
              \o (IF subniche_name # NoName
                  THEN << <<subniche_name, niche_name>>, <<niche_name, subniche_name>>,
                          <<domain_name, subniche_name>>, <<subniche_name, domain_name>> >>
                  ELSE <<>>)
        additional_keywords ==
            <<niche_name, domain_name>>
              \o (IF subniche_name # NoName THEN <<subniche_name>> ELSE <<>>)
        prefixes  == First(SAMPLE_PREFIXES, 6)
        suffixes  == First(SAMPLE_SUFFIXES, 4)
        suffixes3 == First(SAMPLE_SUFFIXES, 3)
        per       == Len(prefixes) * Len(suffixes)
        combined  ==
            [ k \in 1..(Len(base_combinations) * per) |->
                LET c      == base_combinations[((k - 1) \div per) + 1]
                    prefix == prefixes[(((k - 1) % per) \div Len(suffixes)) + 1]
                    suffix == suffixes[((k - 1) % Len(suffixes)) + 1]
                IN  [ prefix |-> <<prefix>>, main_keyword |-> c[1] \o c[2],
                      suffix |-> suffix,
                      full_keyword |-> <<prefix>> \o c[1] \o c[2] \o <<suffix>> ] ]
        plain ==
            [ k \in 1..(Len(additional_keywords) * Len(suffixes3)) |->
                LET keyword_term == additional_keywords[((k - 1) \div Len(suffixes3)) + 1]
                    suffix       == suffixes3[((k - 1) % Len(suffixes3)) + 1]
                IN  [ prefix |-> <<>>, main_keyword |-> keyword_term, suffix |-> suffix,
                      full_keyword |-> keyword_term \o <<suffix>> ] ]
    IN  combined \o plain

\* The elements of a list whose index passes the test, in the list's order.
kept_in_order(list, Keep(_)) ==
    LET indexed == [ k \in 1..Len(list) |-> <<k, list[k]>> ]
        chosen  == SelectSeq(indexed, LAMBDA p : Keep(p[1]))
    IN  [ r \in 1..Len(chosen) |-> chosen[r][2] ]

\* generate_sample_keywords: a candidate is appended unless an earlier one
\* has put the same full_keyword into used_keywords.
generate_sample_keywords(domain_name, niche_name, subniche_name) ==
    LET candidates == keyword_candidates(domain_name, niche_name, subniche_name)
        fresh(k) ==
            ~ \E j \in 1..(k - 1) :
                  candidates[j].full_keyword = candidates[k].full_keyword
    IN  kept_in_order(candidates, fresh)

\* A run that never finds a keyword in global_used_keywords.
in_global_used_keywords_never(global_used_keywords, full_keyword) == FALSE

\* keyword_data["full_keyword"] in global_used_keywords
in_global_used_keywords(global_used_keywords, full_keyword) ==
    full_keyword \in global_used_keywords

\* for keyword_data in sample_keywords: ... session.add(keyword).  When the
\* loop comes to the k-th keyword, global_used_keywords holds what it held
\* before the loop and the full_keyword of every keyword before the k-th.
add_keywords(st, sample_keywords, domain_id, niche_id, sub_niche_id) ==
    LET earlier(k) == { sample_keywords[j].full_keyword : j \in 1..(k - 1) }
        added(k) ==
            /\ ~in_global_used_keywords(st.global_used_keywords,
                                        sample_keywords[k].full_keyword)
            /\ ~in_global_used_keywords(earlier(k), sample_keywords[k].full_keyword)
        new == kept_in_order(sample_keywords, added)
    IN  [ st EXCEPT
            !.global_used_keywords = @ \cup { new[r].full_keyword : r \in 1..Len(new) },
            !.keyword_rows =
                @ \o [ r \in 1..Len(new) |->
                         [ full_keyword |-> new[r].full_keyword,
                           domain_id |-> domain_id,
                           niche_id |-> niche_id,
                           sub_niche_id |-> sub_niche_id ] ],
            !.keyword_count = @ + Len(new) ]

\* create_sample_data has opened its session.
StartSample ==
    [ pc |-> "domains", i |-> 1,
      domains |-> <<>>, niches |-> <<>>, subniches |-> <<>>,
      domain_rows |-> <<>>, niche_rows |-> <<>>, subniche_rows |-> <<>>,
      keyword_rows |-> <<>>, sample_keywords |-> <<>>,
      global_used_keywords |-> {}, keyword_count |-> 0 ]

\* Where the run is after the i-th pass of a loop over n items.
next_pass(st, n, then) ==
    IF st.i < n THEN [ st EXCEPT !.i = @ + 1 ] ELSE [ st EXCEPT !.pc = then, !.i = 1 ]

\* One pass of "for domain_name in SAMPLE_DOMAINS".  The id of a row is its
\* place in its table.
create_domain ==
    /\ sample.pc = "domains"
    /\ LET domain_name == SAMPLE_DOMAINS[sample.i]
           id          == Len(sample.domain_rows) + 1
       IN  sample' = next_pass(
               [ sample EXCEPT
                   !.domain_rows = Append(@, [ id |-> id, name |-> domain_name ]),
                   !.domains = (domain_name :> id) @@ @ ],
               Len(SAMPLE_DOMAINS), "niches")
    /\ UNCHANGED <<settings, rbac_config, req, reqs, args, ret, db>>

\* One pass of the inner loop of "Create niches".
create_niche ==
    /\ sample.pc = "niches"
    /\ LET domain_name == NicheItems[sample.i][1]
           niche_name  == NicheItems[sample.i][2]
           id          == Len(sample.niche_rows) + 1
       IN  sample' = next_pass(
               [ sample EXCEPT
                   !.niche_rows = Append(@, [ id |-> id, name |-> niche_name,
                                              domain_id |-> sample.domains[domain_name] ]),
                   !.niches = (niche_name :> id) @@ @ ],
               Len(NicheItems), "subniches")
    /\ UNCHANGED <<settings, rbac_config, req, reqs, args, ret, db>>

\* One pass of the inner loop of "Create subniches".
create_subniche ==
    /\ sample.pc = "subniches"
    /\ LET niche_name    == SubnicheItems[sample.i][1]
           subniche_name == SubnicheItems[sample.i][2]
           id            == Len(sample.subniche_rows) + 1
       IN  sample' = next_pass(
               IF niche_name \in DOMAIN sample.niches
               THEN [ sample EXCEPT
                        !.subniche_rows =
                            Append(@, [ id |-> id, name |-> subniche_name,
                                        niche_id |-> sample.niches[niche_name] ]),
                        !.subniches = (subniche_name :> id) @@ @ ]
               ELSE sample,
               Len(SubnicheItems), "keywords")
    /\ UNCHANGED <<settings, rbac_config, req, reqs, args, ret, db>>

\* One call of generate_sample_keywords in "Create keywords" and the loop
\* over what it returned.
create_keywords ==
    /\ sample.pc = "keywords"
    /\ LET domain_name   == KeywordCalls[sample.i][1]
           niche_name    == KeywordCalls[sample.i][2]
           subniche_name == KeywordCalls[sample.i][3]
           domain_id     == sample.domains[domain_name]
           niche_id      == sample.niches[niche_name]
       IN  sample' = next_pass(
               IF subniche_name = NoName
               THEN LET sample_keywords ==
                            generate_sample_keywords(domain_name, niche_name, NoName)
                    IN  add_keywords([ sample EXCEPT !.sample_keywords = sample_keywords ],
                                     sample_keywords, domain_id, niche_id, NoId)
               ELSE IF subniche_name \in DOMAIN sample.subniches
               THEN LET sample_keywords ==
                            generate_sample_keywords(domain_name, niche_name, subniche_name)
                    IN  add_keywords([ sample EXCEPT !.sample_keywords = sample_keywords ],
                                     sample_keywords, domain_id, niche_id,
                                     sample.subniches[subniche_name])
               ELSE sample,
               Len(KeywordCalls), "commit")
    /\ UNCHANGED <<settings, rbac_config, req, reqs, args, ret, db>>

\* await session.commit()
commit ==
    /\ sample.pc = "commit"
    /\ sample' = [ sample EXCEPT !.pc = "done" ]
    /\ UNCHANGED <<settings, rbac_config, req, reqs, args, ret, db>>

\* Names for direct calls of generate_sample_keywords, among them equal ones
\* and one that is two others put together.
GenNames == { <<"A">>, <<"B">>, <<"A", "B">> }

GenArgs ==
    { [ fn |-> "generate_sample_keywords", domain_name |-> d, niche_name |-> n,
        subniche_name |-> sn ] :
          d \in GenNames, n \in GenNames, sn \in GenNames \cup {NoName} }

call_generate_sample_keywords ==
    /\ args.fn = "generate_sample_keywords"
    /\ ~ret.done
    /\ ret' = [ done |-> TRUE,
                value |-> generate_sample_keywords(args.domain_name, args.niche_name,
                                                   args.subniche_name) ]
    /\ UNCHANGED <<settings, rbac_config, req, reqs, args, db, sample>>

InitSample ==
    /\ settings = [ AUTH_ENABLED |-> FALSE, MOCK_USER_ID |-> MOCK_USER_ID_DEFAULT,
                    MOCK_USER_ROLE |-> ADMIN ]
    /\ rbac_config = RBACConfig
    /\ req = IdleRequest
    /\ reqs = <<>>
    /\ ret = NoRet
    /\ db = NoRows
    /\ \/ sample = StartSample /\ args = NoArgs
       \/ sample = NoSample /\ args \in GenArgs

NextSample ==
    \/ create_domain
    \/ create_niche
    \/ create_subniche
    \/ create_keywords
    \/ commit
    \/ call_generate_sample_keywords

SpecSample == InitSample /\ [][NextSample]_vars

\* create_sample_data is running or has run.
Running == sample.pc # "off"

\* The full_keyword values of a list of keywords are pairwise distinct.
DistinctKeywords(keywords) ==
    Cardinality({ keywords[k].full_keyword : k \in 1..Len(keywords) }) = Len(keywords)

\* C27: every Keyword row create_sample_data adds with a sub_niche_id refers
\* to a Subniche of the keyword's own niche, and that niche belongs to the
\* keyword's domain.
C27_SubnicheOfOwnNiche ==
    Running =>
        \A k \in 1..Len(sample.keyword_rows) :
            LET keyword == sample.keyword_rows[k]
            IN  keyword.sub_niche_id # NoId =>
                    /\ sample.subniche_rows[keyword.sub_niche_id].niche_id
                           = keyword.niche_id
                    /\ sample.niche_rows[keyword.niche_id].domain_id = keyword.domain_id

\* C28: the list one call of generate_sample_keywords returns has pairwise
\* distinct full_keyword values; no two Keyword rows added in a run of
\* create_sample_data have the same full_keyword, and keyword_count is the
\* number of rows added.
C28_KeywordsDistinct ==
    /\ (args.fn = "generate_sample_keywords" /\ ret.done) => DistinctKeywords(ret.value)
    /\ Running =>
           /\ DistinctKeywords(sample.sample_keywords)
           /\ DistinctKeywords(sample.keyword_rows)
           /\ sample.keyword_count = Len(sample.keyword_rows)
           /\ sample.global_used_keywords
                  = { sample.keyword_rows[k].full_keyword :
                          k \in 1..Len(sample.keyword_rows) }

C28_Witness ==
    /\ sample.pc = "done"
    /\ sample.keyword_count > Len(KeywordCalls)
    /\ sample.keyword_count = Len(sample.keyword_rows)
    /\ \E k \in 1..Len(sample.sample_keywords) :
          \E j \in 1..(Len(sample.keyword_rows) - Len(sample.sample_keywords)) :
              sample.keyword_rows[j].full_keyword
                  = sample.sample_keywords[k].full_keyword

====
